---- MODULE Spec2Model ----
(***************************************************************************)
(* roastcoffea: the MetricsCollector context manager (collector.py), the   *)
(* track_metrics decorator (decorator.py) and the track_time /             *)
(* track_memory / track_bytes context managers (instrumentation.py).       *)
(*                                                                         *)
(* Python values are encoded as follows.                                   *)
(*   - An optional value (x or None) is a sequence: <<>> is None and <<x>> *)
(*     is x.  An attribute that may be missing is encoded the same way.    *)
(*   - A dict whose key set varies is a TLA+ record (function) whose       *)
(*     DOMAIN is the key set.                                              *)
(*   - An insertion-ordered dict name -> value is a sequence of            *)
(*     <<name, value>> pairs with pairwise distinct names.                 *)
(***************************************************************************)
EXTENDS Integers, Sequences, FiniteSets, TLC

\* ------------------------------------------------------------------ bounds
MaxTime == 1
MaxRuns == 2
MaxBlocks == 2
MaxBytes == 1
MaxCount == 1
MaxSpans == 2
MaxSaves == 2
MaxCalls == 3

\* ------------------------------------------------------------ value domains
None == <<>>
Some(x) == <<x>>

Reports == {"report_1", "report_2"}
CustomMetrics == {None, Some("custom")}
\* the process memory readings (MB) that are told apart
Mem == {0, 1}
SectionNames == {"a", "b"}

VARIABLES
    now,        \* the clock read by time.perf_counter() and time.time()
    collector,  \* the attributes of the MetricsCollector instance
    backend,    \* the DaskMetricsBackend as the collector drives it
    ctx,        \* "out" | "in": whether the caller is inside `with collector:`
    hist,       \* what has happened so far (calls and aggregations counted)
    last,       \* the collector operation made last, and how it ended
    psutil,     \* whether the psutil package can be imported
    proc,       \* the attributes of the processor instance
    call,       \* per thread: its track_metrics-wrapped call of proc.process
    calc,       \* an aggregation function, its arguments and what it returned
    disk,       \* output_dir: the measurement directories and their files
    scheduler   \* the Dask scheduler: its workers, tracking attributes, tasks

vars == <<now, collector, backend, ctx, hist, last, psutil, proc, call, calc, disk, scheduler>>
collectorVars == <<collector, backend, ctx, hist, last>>
\* what the processor's instrumentation reads but never changes
envVars == <<psutil, calc, disk, scheduler>>
procVars == <<envVars, proc, call>>

\* a measurement directory output_dir / measurement_name and its files,
\* before anything is written
NoFiles == [exists |-> FALSE, metrics |-> None, timing |-> None, config |-> None, metadata |-> None]
\* the names measurement directories get: the one the callers pass and the
\* one strftime("%Y-%m-%d_%H-%M-%S") makes of the clock
Stamp == "2025-01-01_00-00-00"
DirNames == {"run_1", Stamp}
NoDirs == [n \in DirNames |-> NoFiles]
\* the scheduler before _start_tracking_on_scheduler has ever run: no
\* tracking attribute is set and no sampling task exists
NoTracking ==
    [attributes |-> {},
     track_count |-> FALSE,
     worker_counts |-> <<>>,
     worker_memory |-> <<>>,
     worker_memory_limit |-> <<>>,
     worker_active_tasks |-> <<>>,
     worker_cores |-> <<>>,
     worker_nbytes |-> <<>>,
     worker_occupancy |-> <<>>,
     worker_executing |-> <<>>,
     worker_last_seen |-> <<>>,
     workers |-> {},
     tasks |-> <<>>,
     calls |-> 0,
     raised |-> ""]
\* no aggregation function has been applied, no measurement has been saved,
\* no tracking has been started
EnvIdle == calc = [fn |-> "none"] /\ disk = NoDirs /\ scheduler = NoTracking

\* no wrapped call is running
Idle == \A th \in DOMAIN call : call[th].pc = "idle"

\* time.perf_counter() / time.time(): a reading is the last one or later
Readings == {t \in now..(now + 1) : t <= MaxTime}

\* =================================================================
\* aggregation/core.py: of what MetricsAggregator.aggregate returns, the raw
\* part and the chunk count, together with the arguments it was given (the
\* summary it computes from them is aggregate_summary, further down)
\* =================================================================
aggregate(coffea_report, tracking_data, t_start, t_end, custom_metrics, span_metrics, processor_name, chunk_metrics) ==
    [raw |-> [workers |-> tracking_data,
              tasks |-> span_metrics,
              chunks |-> chunk_metrics],
     t_start |-> t_start,
     t_end |-> t_end,
     num_chunks |-> IF chunk_metrics # None /\ chunk_metrics[1] # <<>>
                    THEN Len(chunk_metrics[1]) ELSE 0,
     report |-> coffea_report,
     custom |-> custom_metrics,
     processor_name |-> processor_name]

\* =================================================================
\* collector.py: MetricsCollector
\* =================================================================
\* __init__ (lines 81-110)
CollectorInit(track_workers, processor_instance) ==
    [track_workers |-> track_workers,
     processor_name |-> IF processor_instance THEN Some("Processor") ELSE None,
     t_start |-> None,
     t_end |-> None,
     coffea_report |-> None,
     custom_metrics |-> None,
     tracking_data |-> None,
     span_info |-> None,
     span_metrics |-> None,
     metrics |-> None]

\* span_log: the calls made on span contexts and for span metrics, in order
BackendInit ==
    [tracking |-> FALSE, starts |-> 0, stops |-> 0,
     span_enters |-> 0, span_exits |-> 0, span_gets |-> 0, span_log |-> <<>>]

\* report_run, span_run, tracking_run: the with-block (counted from 1) in
\* which coffea_report, span_metrics and tracking_data were assigned last,
\* 0 for none
HistInit ==
    [enters |-> 0, exits |-> 0, set_in_block |-> FALSE, aggregations |-> 0,
     chunks_in_block |-> FALSE, exit_raised |-> FALSE,
     report_run |-> 0, span_run |-> 0, tracking_run |-> 0]

LastInit ==
    [op |-> "init", outcome |-> "returned", value |-> None, before |-> None,
     aggregated |-> FALSE, enters |-> 0, ctx |-> "out", had_report |-> FALSE]

\* a lifecycle operation (__enter__, __exit__, set_coffea_report) has returned
Done(op, outcome) == [LastInit EXCEPT !.op = op, !.outcome = outcome]

\* get_metrics or save_measurement has ended: what it returned (None when it
\* raised: the TypeError of the aggregation it called, or else its own
\* RuntimeError), collector.metrics before it, whether it called the
\* aggregation, and the conditions it was called under
Answered(op, value, aggregated) ==
    [op |-> op,
     outcome |-> IF value # None THEN "returned"
                 ELSE IF aggregated THEN "TypeError" ELSE "RuntimeError",
     value |-> value,
     before |-> collector.metrics, aggregated |-> aggregated,
     enters |-> hist.enters, ctx |-> ctx,
     had_report |-> collector.coffea_report # None]

\* backends/dask.py start_tracking / stop_tracking
start_tracking(b) == [b EXCEPT !.tracking = TRUE, !.starts = @ + 1]
stop_tracking(b) == [b EXCEPT !.tracking = FALSE, !.stops = @ + 1]
\* the tracking data stop_tracking returns: that of the session started last
tracking_result(b) == Some([session |-> b.starts])

\* _aggregate_metrics (lines 181-207): the collector after it, or the
\* collector unchanged when it raises RuntimeError
CanAggregate(c) ==
    /\ c.t_start # None
    /\ c.t_end # None
    /\ c.coffea_report # None

\* aggregation/core.py 105-109: aggregate hands truthy span metrics to
\* parse_fine_metrics together with the keyword processor_name, which
\* parse_fine_metrics (fine_metrics.py 12-14) does not accept: the call
\* raises TypeError and self.metrics is not assigned
AggregateRaises(c) == c.span_metrics # None /\ c.span_metrics[1] # {}

_aggregate_metrics(c) ==
    IF AggregateRaises(c) THEN c
    ELSE [c EXCEPT !.metrics =
            Some(aggregate(c.coffea_report[1], c.tracking_data, c.t_start[1],
                           c.t_end[1], c.custom_metrics, c.span_metrics,
                           c.processor_name, None))]

\* __enter__ (lines 112-134)
Enter ==
    /\ ctx = "out"
    /\ Idle
    /\ hist.enters < MaxRuns
    /\ \E t \in Readings, created \in BOOLEAN, entered \in BOOLEAN :
        LET b1 == IF collector.track_workers THEN start_tracking(backend)
                  ELSE backend
            ok == created /\ entered
            b2 == IF ok
                  THEN [b1 EXCEPT !.span_enters = @ + 1,
                                  !.span_log = Append(@, <<"enter", b1.span_enters + 1>>)]
                  ELSE b1
        IN  /\ (~created => entered)
            /\ now' = t
            /\ collector' = [collector EXCEPT
                   !.t_start = Some(t),
                   !.span_info = IF ok
                                 THEN Some([name |-> "coffea-processing",
                                            id |-> b2.span_enters])
                                 ELSE None]
            /\ backend' = b2
    /\ ctx' = "in"
    /\ hist' = [hist EXCEPT !.enters = @ + 1, !.set_in_block = FALSE,
                            !.chunks_in_block = FALSE]
    /\ last' = Done("enter", "returned")
    /\ UNCHANGED procVars

\* __exit__ (lines 136-164); body_raised: the with-body raised, span_exit_ok:
\* the span context's __exit__ returns, span_has_metrics: the scheduler holds
\* metrics for the span
\* a faulty __exit__ that leaves the span open
LeaveSpanOpen(c, b, span_exit_ok, span_has_metrics) == <<c, b>>

ExitSpan(c, b, span_exit_ok, span_has_metrics) ==
    IF c.span_info = None THEN <<c, b>>
    ELSE IF ~span_exit_ok
         THEN <<[c EXCEPT !.span_metrics = None],
                [b EXCEPT !.span_exits = @ + 1,
                          !.span_log = Append(@, <<"exit", c.span_info[1].id>>)]>>
         ELSE <<[c EXCEPT !.span_metrics =
                    Some(IF span_has_metrics THEN {c.span_info[1].id} ELSE {})],
                [b EXCEPT !.span_exits = @ + 1, !.span_gets = @ + 1,
                          !.span_log = @ \o << <<"exit", c.span_info[1].id>>,
                                               <<"get_span_metrics", c.span_info[1].id>> >>]>>

\* a faulty __exit__ that leaves the tracking running
NoStopTracking(c, b) == <<c, b>>

ExitTracking(c, b) ==
    IF c.track_workers
    THEN <<[c EXCEPT !.tracking_data = tracking_result(b)], stop_tracking(b)>>
    ELSE <<c, b>>

\* a faulty __exit__ that never aggregates
NoAggregate(c) == c

ExitAggregate(c) ==
    IF c.coffea_report # None THEN _aggregate_metrics(c) ELSE c

Exit ==
    /\ ctx = "in"
    /\ Idle
    /\ \E t \in Readings, body_raised \in BOOLEAN, span_exit_ok \in BOOLEAN,
          span_has_metrics \in BOOLEAN :
        LET c0 == [collector EXCEPT !.t_end = Some(t)]
            s == ExitSpan(c0, backend, span_exit_ok, span_has_metrics)
            tr == ExitTracking(s[1], s[2])
            c3 == ExitAggregate(tr[1])
        IN  /\ (collector.span_info = None => span_exit_ok /\ span_has_metrics)
            /\ (~span_exit_ok => span_has_metrics)
            /\ now' = t
            /\ collector' = c3
            /\ backend' = tr[2]
            /\ hist' = [hist EXCEPT
                   !.exits = @ + 1,
                   !.span_run = IF collector.span_info # None THEN hist.enters ELSE @,
                   !.tracking_run = IF collector.track_workers THEN hist.enters ELSE @,
                   !.aggregations = IF collector.coffea_report # None
                                       /\ ~AggregateRaises(tr[1])
                                    THEN @ + 1 ELSE @,
                   !.exit_raised = collector.coffea_report # None
                                      /\ AggregateRaises(tr[1])]
            /\ last' = Done("exit",
                     IF collector.coffea_report # None /\ AggregateRaises(tr[1])
                     THEN "TypeError"
                     ELSE IF body_raised THEN "body_exception" ELSE "returned")
    /\ ctx' = "out"
    /\ UNCHANGED procVars

\* set_coffea_report (lines 166-179)
SetCoffeaReport ==
    /\ Idle
    /\ \E report \in Reports, custom_metrics \in CustomMetrics :
        collector' = [collector EXCEPT !.coffea_report = Some(report),
                                       !.custom_metrics = custom_metrics]
    /\ hist' = [hist EXCEPT !.set_in_block = (ctx = "in"),
                            !.report_run = IF ctx = "in" THEN hist.enters ELSE 0]
    /\ last' = Done("set_coffea_report", "returned")
    /\ UNCHANGED <<now, backend, ctx, procVars>>

\* a faulty get_metrics that aggregates again on every call
AlwaysAggregate(c) ==
    IF CanAggregate(c)
    THEN <<_aggregate_metrics(c), _aggregate_metrics(c).metrics>>
    ELSE <<c, c.metrics>>

\* get_metrics (lines 209-229): the collector after the call and what the
\* call returns (None when it raises)
get_metrics(c) ==
    IF c.metrics # None THEN <<c, c.metrics>>
    ELSE IF CanAggregate(c)
         THEN <<_aggregate_metrics(c), _aggregate_metrics(c).metrics>>
         ELSE <<c, None>>

GetMetrics ==
    /\ Idle
    /\ LET r == get_metrics(collector)
           aggregated == collector.metrics = None /\ CanAggregate(collector)
       IN  /\ collector' = r[1]
           /\ hist' = [hist EXCEPT !.aggregations =
                          IF aggregated /\ r[2] # None THEN @ + 1 ELSE @]
           /\ last' = Answered("get_metrics", r[2], aggregated)
    /\ UNCHANGED <<now, backend, ctx, procVars>>

\* save_measurement (lines 231-260): what is written is (metrics, t0, t1)
SaveMeasurement ==
    /\ Idle
    /\ LET timed == collector.t_start # None /\ collector.t_end # None
           r == IF timed THEN get_metrics(collector) ELSE <<collector, None>>
           aggregated == timed /\ collector.metrics = None /\ CanAggregate(collector)
       IN  /\ collector' = r[1]
           /\ hist' = [hist EXCEPT !.aggregations =
                          IF aggregated /\ r[2] # None THEN @ + 1 ELSE @]
           /\ last' = Answered("save_measurement", r[2], aggregated)
    /\ UNCHANGED <<now, backend, ctx, procVars>>

\* =================================================================
\* the processor instance, the events object and what process() returns
\* =================================================================
EmptyDict == [k \in {} |-> 0]

\* the exceptions a process() body raises: ValueError is an Exception,
\* KeyboardInterrupt a BaseException that is no Exception; AttributeError is
\* what reading a missing _roastcoffea_current_chunk raises
BodyExceptions == {"ValueError", "KeyboardInterrupt"}
IsException(e) == e \in {"ValueError", "AttributeError"}

\* events.metadata["filesource"]: missing, an object without
\* num_requested_bytes, or a file source that has requested 0 bytes so far
FileSources == {None, Some([num_requested_bytes |-> None]),
                Some([num_requested_bytes |-> Some(0)])}

\* an events object: len(events) (None: no __len__) and events.metadata
\* (None: no metadata attribute)
Events ==
    {[len |-> None, metadata |-> None]} \cup
    [len : {Some(2)},
     metadata : {None} \cup {Some([filesource |-> fs]) : fs \in FileSources}]

\* what the wrapped function returns: a dict (with or without a
\* __roastcoffea_metrics__ key of its own) or something that is no dict
Dict(metrics) == [type |-> "dict", metrics |-> metrics]
NotADict == [type |-> "not_a_dict", metrics |-> None]
BodyResults == {Dict(None), Dict(Some(<<>>)), NotADict}

\* the processor instance: the class attribute _roastcoffea_collect_metrics
\* and the attribute _roastcoffea_current_chunk (None: no such attribute)
ProcInit(collect) == [collect |-> collect, chunk |-> None]

CallIdle ==
    [pc |-> "idle", collect |-> FALSE, events |-> None, t_start |-> 0,
     mem_before |-> 0, bytes_start |-> 0, chunk_metadata |-> EmptyDict,
     stack |-> <<>>, exited |-> 0, unwound |-> None, exc |-> "",
     own |-> [timing |-> <<>>, memory |-> <<>>], out |-> None]

\* utils.py get_process_memory (lines 40-56): the readings it can return
MemReadings == IF psutil THEN Mem ELSE {0}

\* num_requested_bytes of the events' file source, None when it has none
RequestedBytes(ev) ==
    IF ev.metadata = None THEN None
    ELSE IF ev.metadata[1].filesource = None THEN None
    ELSE ev.metadata[1].filesource[1].num_requested_bytes

\* an insertion-ordered dict: d[name] = value
DictHas(d, name) == \E i \in 1..Len(d) : d[i][1] = name
DictSet(d, name, value) ==
    IF DictHas(d, name)
    THEN [i \in 1..Len(d) |-> IF d[i][1] = name THEN <<name, value>> ELSE d[i]]
    ELSE Append(d, <<name, value>>)

\* =================================================================
\* decorator.py: track_metrics
\* =================================================================
\* _extract_chunk_metadata (lines 125-186), for events without a behavior
\* attribute
_extract_chunk_metadata(ev) ==
    (IF ev.len # None THEN [num_events |-> ev.len[1]] ELSE EmptyDict)
    @@ (IF ev.metadata # None
        THEN [dataset |-> "dataset", file |-> "file", uuid |-> "uuid",
              entry_start |-> 0, entry_stop |-> 2]
        ELSE EmptyDict)

\* a faulty wrapper that collects whatever the instance says
AlwaysCollect(p) == TRUE

\* line 58: getattr(self, "_roastcoffea_collect_metrics", False)
should_collect(p) == p.collect

\* num_requested_bytes as the wrapped call finds it (0 when there is none)
BytesRequested(ev) ==
    IF RequestedBytes(ev) = None THEN 0 ELSE RequestedBytes(ev)[1]

\* wrapper, lines 56-75: up to the call of the wrapped function
WrapperEnter(th, ev) ==
    /\ call[th].pc = "idle"
    /\ IF ~should_collect(proc)
       THEN /\ call' = [call EXCEPT ![th] =
                   [CallIdle EXCEPT !.pc = "body", !.events = Some(ev),
                                    !.bytes_start = BytesRequested(ev)]]
            /\ UNCHANGED <<now, proc>>
       ELSE \E t \in Readings, m \in MemReadings :
            /\ proc' = [proc EXCEPT !.chunk =
                           Some([timing |-> <<>>, memory |-> <<>>])]
            /\ now' = t
            /\ call' = [call EXCEPT ![th] =
                   [CallIdle EXCEPT
                       !.pc = "body", !.collect = TRUE, !.events = Some(ev),
                       !.t_start = t, !.mem_before = m,
                       !.bytes_start = BytesRequested(ev),
                       !.chunk_metadata = _extract_chunk_metadata(ev)]]
    /\ UNCHANGED <<collectorVars, envVars>>

\* lines 87-99: the chunk record
chunk_metrics(c, container, t_end, mem_after, timestamp) ==
    [timing |-> IF "timing" \in DOMAIN container THEN container.timing ELSE <<>>,
     memory |-> IF "memory" \in DOMAIN container THEN container.memory ELSE <<>>]
    @@ c.chunk_metadata
    @@ [t_start |-> c.t_start,
        t_end |-> t_end,
        duration |-> t_end - c.t_start,
        mem_before_mb |-> c.mem_before,
        mem_after_mb |-> mem_after,
        mem_delta_mb |-> mem_after - c.mem_before,
        timestamp |-> timestamp]

\* a faulty wrapper that returns the result as it got it
InjectNothing(result, chunk) == result

\* lines 106-112: the chunk record goes into a dict result as a list of one
Inject(result, chunk) ==
    IF result.type = "dict" THEN Dict(Some(<<chunk>>)) ELSE result

Returned(c, func, value) ==
    [c EXCEPT !.pc = "idle",
              !.out = Some([kind |-> "return", exc |-> "", func |-> Some(func),
                            value |-> Some(value), collect |-> c.collect])]
Raised(c, func, exc) ==
    [c EXCEPT !.pc = "idle", !.exc = "",
              !.out = Some([kind |-> "raise", exc |-> exc, func |-> func,
                            value |-> None, collect |-> c.collect])]

\* the wrapped function returns `result`: line 62 without collection, lines
\* 80-112 (and 114-120 when the container is gone) with it
BodyReturn(th, result) ==
    LET c == call[th] IN
    /\ c.pc = "body"
    /\ c.stack = <<>>
    /\ IF ~c.collect
       THEN /\ call' = [call EXCEPT ![th] = Returned(c, result, result)]
            /\ UNCHANGED <<now, proc, hist>>
       ELSE \E t_end \in Readings, m \in MemReadings :
            \E timestamp \in {t \in t_end..(t_end + 1) : t <= MaxTime} :
            /\ now' = timestamp
            /\ proc' = [proc EXCEPT !.chunk = None]
            /\ IF proc.chunk = None
               THEN /\ call' = [call EXCEPT ![th] =
                           Raised(c, Some(result), "AttributeError")]
                    /\ UNCHANGED hist
               ELSE /\ call' = [call EXCEPT ![th] =
                           Returned(c, result,
                               Inject(result,
                                   chunk_metrics(c, proc.chunk[1], t_end, m,
                                                 timestamp)))]
                    /\ hist' = [hist EXCEPT !.chunks_in_block =
                                   @ \/ (ctx = "in" /\ result.type = "dict")]
    /\ UNCHANGED <<collector, backend, ctx, last, envVars>>

\* the wrapped function raises
BodyRaise(th, e) ==
    /\ call[th].pc = "body"
    /\ call' = [call EXCEPT ![th].pc = "unwinding", ![th].exc = e]
    /\ UNCHANGED <<now, collectorVars, envVars, proc>>

\* the exception leaves the wrapped function: it propagates (line 62), or
\* lines 114-120 handle it when it is an Exception
WrapperRaise(th) ==
    LET c == call[th] IN
    /\ c.pc = "unwinding"
    /\ c.stack = <<>>
    /\ proc' = IF c.collect /\ IsException(c.exc)
               THEN [proc EXCEPT !.chunk = None] ELSE proc
    /\ call' = [call EXCEPT ![th] = Raised(c, None, c.exc)]
    /\ UNCHANGED <<now, collectorVars, envVars>>

\* =================================================================
\* instrumentation.py: track_time, track_memory, track_bytes
\* =================================================================
Kinds == {"timing", "memory", "bytes"}

\* entering `with track_time/track_memory/track_bytes(self, ..., name)`:
\* lines 54-55, 112-119, 192-199.  active: the instance has a container
TrackEnter(th, kind, name) ==
    LET c == call[th]
        active == proc.chunk # None
        frame(before) == [kind |-> kind, name |-> name, active |-> active,
                          before |-> before]
        push(before) == [call EXCEPT ![th].stack = Append(@, frame(before))]
    IN
    /\ c.pc = "body"
    /\ c.exited + Len(c.stack) < MaxBlocks
    /\ IF ~active
       THEN call' = push(None) /\ now' = now
       ELSE CASE kind = "timing" ->
                   \E t \in Readings : now' = t /\ call' = push(Some(t))
              [] kind = "memory" ->
                   /\ now' = now
                   /\ IF psutil
                      THEN \E m \in Mem : call' = push(Some(m))
                      ELSE call' = push(None)
              [] kind = "bytes" ->
                   /\ now' = now
                   /\ call' = push(
                        IF c.events[1].metadata = None THEN None
                        ELSE IF RequestedBytes(c.events[1]) = None THEN Some(0)
                        ELSE RequestedBytes(c.events[1]))
    /\ UNCHANGED <<collectorVars, envVars, proc>>

\* what the block measured: lines 60, 124-134, 204-215
Measured(f, ev, t, m) ==
    CASE f.kind = "timing" -> t - f.before[1]
      [] f.kind = "memory" -> IF f.before # None THEN m - f.before[1] ELSE 0
      [] f.kind = "bytes" ->
           IF f.before = None THEN 0
           ELSE (IF RequestedBytes(ev) = None THEN 0 ELSE RequestedBytes(ev)[1])
                - f.before[1]

\* a faulty finally clause that writes nothing
NoRecord(container, kind, name, value) == container

\* lines 62-65, 136-139, 217-220: container[kind][name] = value
Record(container, kind, name, value) ==
    LET old == IF kind \in DOMAIN container THEN container[kind] ELSE <<>>
    IN  (kind :> DictSet(old, name, value)) @@ container

\* leaving the block, the body having finished or raised: the finally clause
TrackExit(th) ==
    LET c == call[th]
        f == c.stack[Len(c.stack)]
        popped == [c EXCEPT !.stack = SubSeq(@, 1, Len(@) - 1),
                            !.exited = @ + 1,
                            !.unwound = IF c.pc = "unwinding"
                                        THEN Some([kind |-> f.kind,
                                                   name |-> f.name,
                                                   active |-> f.active,
                                                   exc |-> c.exc])
                                        ELSE @]
    IN
    /\ c.pc \in {"body", "unwinding"}
    /\ c.stack # <<>>
    /\ IF ~f.active
       THEN /\ call' = [call EXCEPT ![th] = popped]
            /\ UNCHANGED <<now, proc>>
       ELSE \E t \in (IF f.kind = "timing" THEN Readings ELSE {now}),
               m \in (IF f.kind = "memory" /\ f.before # None THEN Mem ELSE {0}) :
            /\ now' = t
            /\ IF proc.chunk = None
               THEN /\ call' = [call EXCEPT ![th] =
                           [popped EXCEPT !.pc = "unwinding",
                                          !.exc = "AttributeError"]]
                    /\ proc' = proc
               ELSE /\ call' = [call EXCEPT ![th] =
                           [popped EXCEPT !.own =
                               Record(@, f.kind, f.name,
                                      Measured(f, c.events[1], t, m))]]
                    /\ proc' = [proc EXCEPT !.chunk =
                           Some(Record(proc.chunk[1], f.kind, f.name,
                                       Measured(f, c.events[1], t, m)))]
    /\ UNCHANGED <<collectorVars, envVars>>

\* the body reads from the file: the file source requests more bytes
ReadFile(th) ==
    LET c == call[th]
        ev == c.events[1]
        n == RequestedBytes(ev)
    IN
    /\ c.pc = "body"
    /\ n # None
    /\ n[1] < MaxBytes
    /\ call' = [call EXCEPT ![th].events =
           Some([ev EXCEPT !.metadata =
               Some([filesource |-> Some([num_requested_bytes |-> Some(n[1] + 1)])])])]
    /\ UNCHANGED <<now, collectorVars, envVars, proc>>

\* =================================================================
\* specifications
\* =================================================================
InitCollector ==
    /\ now = 0
    /\ \E track_workers \in BOOLEAN, processor_instance \in BOOLEAN :
         collector = CollectorInit(track_workers, processor_instance)
    /\ backend = BackendInit
    /\ ctx = "out"
    /\ hist = HistInit
    /\ last = LastInit

\* the collector alone: one MetricsCollector used for up to MaxRuns with-blocks
Init ==
    /\ InitCollector
    /\ psutil = TRUE
    /\ \E collect \in BOOLEAN : proc = ProcInit(collect)
    /\ call = [th \in {1} |-> CallIdle]
    /\ EnvIdle

Next ==
    \/ Enter
    \/ Exit
    \/ SetCoffeaReport
    \/ GetMetrics
    \/ SaveMeasurement

Spec == Init /\ [][Next]_vars

\* one processor instance and its wrapped process() calls, with the
\* instrumentation blocks of their bodies
InitChunk ==
    /\ now = 0
    /\ collector = CollectorInit(FALSE, TRUE)
    /\ backend = BackendInit
    /\ ctx = "out"
    /\ hist = HistInit
    /\ last = LastInit
    /\ psutil \in BOOLEAN
    /\ \E collect \in BOOLEAN : proc = ProcInit(collect)
    /\ call = [th \in {1} |-> CallIdle]
    /\ EnvIdle

NextChunk ==
    \/ \E th \in DOMAIN call, ev \in Events : WrapperEnter(th, ev)
    \/ \E th \in DOMAIN call, result \in BodyResults : BodyReturn(th, result)
    \/ \E th \in DOMAIN call, e \in BodyExceptions : BodyRaise(th, e)
    \/ \E th \in DOMAIN call : WrapperRaise(th)
    \/ \E th \in DOMAIN call, kind \in Kinds, name \in SectionNames :
          TrackEnter(th, kind, name)
    \/ \E th \in DOMAIN call : TrackExit(th)
    \/ \E th \in DOMAIN call : ReadFile(th)

SpecChunk == InitChunk /\ [][NextChunk]_vars

\* a collector created with processor_instance = the processor, used for one
\* with-block, and the wrapped process() calls made inside and outside of it
\* on a chunk of two events without metadata
InitRun ==
    /\ now = 0
    /\ \E track_workers \in BOOLEAN :
         collector = CollectorInit(track_workers, TRUE)
    /\ backend = BackendInit
    /\ ctx = "out"
    /\ hist = HistInit
    /\ last = LastInit
    /\ psutil = FALSE
    /\ \E collect \in BOOLEAN : proc = ProcInit(collect)
    /\ call = [th \in {1} |-> CallIdle]
    /\ EnvIdle

RunEvents == {ev \in Events : ev.len # None /\ ev.metadata = None}

NextRun ==
    \/ hist.enters = 0 /\ Enter
    \/ Exit
    \/ SetCoffeaReport
    \/ GetMetrics
    \/ SaveMeasurement
    \/ \E th \in DOMAIN call, ev \in RunEvents : WrapperEnter(th, ev)
    \/ \E th \in DOMAIN call, result \in BodyResults : BodyReturn(th, result)
    \/ \E th \in DOMAIN call, e \in BodyExceptions : BodyRaise(th, e)
    \/ \E th \in DOMAIN call : WrapperRaise(th)

SpecRun == InitRun /\ [][NextRun]_vars

\* one processor instance with collection enabled, shared by two threads
\* that each call the wrapped process() once on a chunk of two events; the
\* bodies use track_time and track_memory blocks and return a dict or raise
Threads == {1, 2}
ThreadKinds == {"timing", "memory"}

InitThreads ==
    /\ now = 0
    /\ collector = CollectorInit(FALSE, TRUE)
    /\ backend = BackendInit
    /\ ctx = "out"
    /\ hist = HistInit
    /\ last = LastInit
    /\ psutil = FALSE
    /\ proc = ProcInit(TRUE)
    /\ call = [th \in Threads |-> CallIdle]
    /\ EnvIdle

NextThreads ==
    \/ \E th \in DOMAIN call, ev \in RunEvents :
          call[th].out = None /\ WrapperEnter(th, ev)
    \/ \E th \in DOMAIN call : BodyReturn(th, Dict(None))
    \/ \E th \in DOMAIN call : BodyRaise(th, "ValueError")
    \/ \E th \in DOMAIN call : WrapperRaise(th)
    \/ \E th \in DOMAIN call, kind \in ThreadKinds, name \in SectionNames :
          TrackEnter(th, kind, name)
    \/ \E th \in DOMAIN call : TrackExit(th)

SpecThreads == InitThreads /\ [][NextThreads]_vars

\* =================================================================
\* Python numbers.  A number is the exact fraction <<n, d>> in lowest terms
\* with d > 0 (a float is taken with exact arithmetic); the fraction <<0, 0>>
\* stands for the ZeroDivisionError a division by zero raises.
\* =================================================================
RECURSIVE GCD(_, _)
GCD(a, b) == IF b = 0 THEN a ELSE GCD(b, a % b)
ZeroDivision == <<0, 0>>
Frac(n, d) ==
    IF d = 0 THEN ZeroDivision
    ELSE LET g == GCD(IF n < 0 THEN -n ELSE n, IF d < 0 THEN -d ELSE d)
             s == IF d < 0 THEN -1 ELSE 1
         IN  <<(s * n) \div g, (s * d) \div g>>
Num(n) == <<n, 1>>
Zero == Num(0)
IsError(a) == a[2] = 0
Add(a, b) == IF IsError(a) \/ IsError(b) THEN ZeroDivision ELSE Frac(a[1] * b[2] + b[1] * a[2], a[2] * b[2])
Mul(a, b) == IF IsError(a) \/ IsError(b) THEN ZeroDivision ELSE Frac(a[1] * b[1], a[2] * b[2])
Div(a, b) == IF IsError(a) \/ IsError(b) THEN ZeroDivision ELSE Frac(a[1] * b[2], a[2] * b[1])
Positive(a) == a[1] > 0 /\ a[2] > 0
\* d.get(key, default) of a key that may be missing
Get(field, default) == IF field = None THEN default ELSE field[1]

\* a function returns the dict it built unless one of the numbers in it
\* could not be computed
Raises(exception) == [raised |-> exception]
Returns(result) ==
    IF \E k \in DOMAIN result : result[k] \in {ZeroDivision, Some(ZeroDivision)}
    THEN Raises("ZeroDivisionError")
    ELSE [raised |-> "", value |-> result]

\* =================================================================
\* the aggregation functions applied to arguments: calc.out is None until
\* the function named by calc.fn has been applied to calc.args
\* =================================================================
Pending(fn) == calc.fn = fn /\ calc.out = None
Applied(fn) == calc.fn = fn /\ calc.out # None
Finish(out) ==
    /\ calc' = [calc EXCEPT !.out = Some(out)]
    /\ UNCHANGED <<now, collectorVars, psutil, proc, call, disk, scheduler>>

\* =================================================================
\* aggregation/workflow.py
\* =================================================================
\* the counts found in reports: a key is missing or holds 0..MaxCount
Counts == {None} \cup {Some(Num(n)) : n \in 0..MaxCount}
CoffeaReports == [bytesread : Counts, entries : Counts, processtime : Counts, chunks : Counts]
\* the value custom_metrics holds for a dataset: a dict of per-dataset
\* counts, or something that is not a dict
NotADataset == [type |-> "str", entries |-> None, duration |-> None, performance_counters |-> None]
Dataset(entries, duration, perf) == [type |-> "dict", entries |-> entries, duration |-> duration, performance_counters |-> perf]
PerfCounters(bytes) == [num_requested_bytes |-> bytes]
DatasetValues ==
    { Dataset(Some(Num(1)), Some(Num(1)), Some(PerfCounters(Some(Num(1))))),
      Dataset(Some(Num(1)), None, Some(PerfCounters(None))),
      Dataset(None, Some(Num(1)), None),
      NotADataset }
CustomMetricsDicts ==
    {None, Some(<<>>)}
      \cup {Some(<< <<"TTbar", d>> >>) : d \in DatasetValues}
      \cup {Some(<< <<"TTbar", d>>, <<"WJets", e>> >>) : d \in DatasetValues, e \in DatasetValues}
Times == 0..MaxTime

\* lines 59-75: the loop over the datasets of combined_report
RECURSIVE SumDatasets(_, _)
SumDatasets(combined_report, totals) ==
    IF combined_report = <<>> THEN totals
    ELSE LET dataset_data == Head(combined_report)[2]
             perf_counters == Get(dataset_data.performance_counters, PerfCounters(None))
         IN  IF dataset_data.type # "dict"
             THEN SumDatasets(Tail(combined_report), totals)
             ELSE SumDatasets(Tail(combined_report),
                    [total_bytes_compressed |-> Add(totals.total_bytes_compressed, Get(perf_counters.num_requested_bytes, Zero)),
                     total_events |-> Add(totals.total_events, Get(dataset_data.entries, Zero)),
                     total_cpu_time |-> Add(totals.total_cpu_time, Get(dataset_data.duration, Zero))])

\* a division without its guard
UnguardedRatio(x, divisor) == Div(x, divisor)
\* `x / divisor if divisor > 0 else 0`
RatioOrZero(x, divisor) == IF Positive(divisor) THEN Div(x, divisor) ELSE Zero

\* `(x / divisor) / 1000 if divisor > 0 else 0` is written below as
\* RatioOrZero(x, divisor) / 1000: the same number in either branch
aggregate_workflow_metrics(coffea_report, t_start, t_end, custom_metrics) ==
    LET wall_time == Num(t_end - t_start)
        num_chunks == Get(coffea_report.chunks, Zero)
        combined_report ==
            IF custom_metrics # None /\ custom_metrics[1] # <<>>
            THEN custom_metrics[1]
            ELSE IF coffea_report.bytesread # None
            THEN << <<"total", Dataset(Some(Get(coffea_report.entries, Zero)),
                                       Some(Get(coffea_report.processtime, wall_time)),
                                       Some(PerfCounters(Some(Get(coffea_report.bytesread, Zero)))))>> >>
            ELSE <<>>
        totals == SumDatasets(combined_report, [total_bytes_compressed |-> Zero, total_events |-> Zero, total_cpu_time |-> Zero])
    IN  Returns(
          [overall_rate_gbps |-> RatioOrZero(Div(Mul(totals.total_bytes_compressed, Num(8)), Num(1000000000)), wall_time),
           overall_rate_mbps |-> RatioOrZero(Div(totals.total_bytes_compressed, Num(1000000)), wall_time),
           compression_ratio |-> None,
           total_events |-> totals.total_events,
           event_rate_wall_khz |-> Div(RatioOrZero(totals.total_events, wall_time), Num(1000)),
           event_rate_agg_khz |-> Div(RatioOrZero(totals.total_events, totals.total_cpu_time), Num(1000)),
           wall_time |-> wall_time,
           total_cpu_time |-> totals.total_cpu_time,
           num_chunks |-> num_chunks,
           avg_cpu_time_per_chunk |-> RatioOrZero(totals.total_cpu_time, num_chunks),
           total_bytes_compressed |-> totals.total_bytes_compressed,
           total_bytes_uncompressed |-> None])


ApplyWorkflow ==
    /\ Pending("aggregate_workflow_metrics")
    /\ Finish(aggregate_workflow_metrics(calc.args.coffea_report, calc.args.t_start, calc.args.t_end, calc.args.custom_metrics))

\* =================================================================
\* aggregation/efficiency.py
\* =================================================================
\* non-negative amounts of seconds, events and cores, whole or not
Amounts == {Num(n) : n \in 0..MaxCount} \cup {Frac(1, 2)}
OptionalAmounts == {None} \cup {Some(a) : a \in Amounts}
WorkflowMetrics == [wall_time : OptionalAmounts, total_cpu_time : OptionalAmounts, total_events : OptionalAmounts]
WorkerMetrics == [total_cores : OptionalAmounts]

\* an available time that forgets the cores
WallTimeOnly(total_cores, wall_time) == wall_time
\* line 39
total_available_time(total_cores, wall_time) == Mul(total_cores, wall_time)

calculate_efficiency_metrics(workflow_metrics, worker_metrics) ==
    LET wall_time == Get(workflow_metrics.wall_time, Zero)
        total_cpu_time == Get(workflow_metrics.total_cpu_time, Zero)
        total_events == Get(workflow_metrics.total_events, Zero)
        total_cores == worker_metrics.total_cores
        core_efficiency ==
            IF total_cores # None
            THEN IF Positive(wall_time)
                 THEN Some(RatioOrZero(total_cpu_time, total_available_time(total_cores[1], wall_time)))
                 ELSE Some(Zero)
            ELSE None
        speedup_factor == RatioOrZero(total_cpu_time, wall_time)
        event_rate_core_hz ==
            IF total_cores # None
            THEN IF Positive(wall_time)
                 THEN Some(Div(total_events, Mul(wall_time, total_cores[1])))
                 ELSE Some(Zero)
            ELSE None
    IN  Returns([core_efficiency |-> core_efficiency,
                 speedup_factor |-> speedup_factor,
                 event_rate_core_hz |-> event_rate_core_hz])


ApplyEfficiency ==
    /\ Pending("calculate_efficiency_metrics")
    /\ Finish(calculate_efficiency_metrics(calc.args.workflow_metrics, calc.args.worker_metrics))

\* =================================================================
\* aggregation/fine_metrics.py
\* =================================================================
\* a key of cumulative_worker_metrics: a tuple of strings (context, task
\* prefix, activity, unit), possibly shorter, or something that is no tuple
TupleKey(parts) == [tuple |-> TRUE, parts |-> parts]
SpanKeys ==
    { TupleKey(<<"execute", "process", "thread-cpu", "seconds">>),
      TupleKey(<<"execute", "read", "thread-cpu", "seconds">>),
      TupleKey(<<"execute", "process", "thread-noncpu", "seconds">>),
      TupleKey(<<"execute", "process", "disk-read", "bytes">>),
      TupleKey(<<"execute", "read", "disk-read", "bytes">>),
      TupleKey(<<"execute", "process", "disk-read", "count">>),
      TupleKey(<<"execute", "process", "disk-read">>),
      TupleKey(<<"execute", "process", "memory-read", "bytes">>),
      TupleKey(<<"execute", "process">>),
      [tuple |-> FALSE, parts |-> <<"thread-cpu">>] }
SpanItems == {<<key, value>> : key \in SpanKeys, value \in Amounts}
\* the span metrics dicts of at most MaxSpans items (keys pairwise distinct)
SpanMetrics ==
    {items \in UNION {[1..n -> SpanItems] : n \in 0..MaxSpans} :
        \A i, j \in DOMAIN items : items[i][1] = items[j][1] => i = j}

\* `if not isinstance(key, tuple) or len(key) < 3: continue`
Skipped(key) == ~key.tuple \/ Len(key.parts) < 3

\* a loop that keeps the last value of an activity instead of adding
RECURSIVE LastActivity(_, _)
LastActivity(items, activity) ==
    IF items = <<>> THEN Zero
    ELSE LET key == items[Len(items)][1]
         IN  IF ~Skipped(key) /\ key.parts[3] = activity
             THEN items[Len(items)][2]
             ELSE LastActivity(SubSeq(items, 1, Len(items) - 1), activity)
\* lines 51-74: the loop's `+= value` for one activity
RECURSIVE SumActivity(_, _)
SumActivity(items, activity) ==
    IF items = <<>> THEN Zero
    ELSE LET key == Head(items)[1]
             rest == SumActivity(Tail(items), activity)
         IN  IF ~Skipped(key) /\ key.parts[3] = activity
             THEN Add(Head(items)[2], rest)
             ELSE rest

\* lines 134-144: the loop's `+= value` for one activity with unit "bytes"
RECURSIVE SumBytes(_, _)
SumBytes(items, activity) ==
    IF items = <<>> THEN Zero
    ELSE LET key == Head(items)[1]
             rest == SumBytes(Tail(items), activity)
         IN  IF ~Skipped(key) /\ key.parts[3] = activity /\ Len(key.parts) >= 4 /\ key.parts[4] = "bytes"
             THEN Add(Head(items)[2], rest)
             ELSE rest

parse_fine_metrics(cumulative_worker_metrics) ==
    LET cpu_time == SumActivity(cumulative_worker_metrics, "thread-cpu")
        io_time == SumActivity(cumulative_worker_metrics, "thread-noncpu")
        disk_read == SumActivity(cumulative_worker_metrics, "disk-read")
        disk_write == SumActivity(cumulative_worker_metrics, "disk-write")
        decompress_time == SumActivity(cumulative_worker_metrics, "decompress")
        compress_time == SumActivity(cumulative_worker_metrics, "compress")
        deserialize_time == SumActivity(cumulative_worker_metrics, "deserialize")
        serialize_time == SumActivity(cumulative_worker_metrics, "serialize")
        total_time == Add(cpu_time, io_time)
    IN  Returns(
          [cpu_time_seconds |-> cpu_time,
           io_time_seconds |-> io_time,
           cpu_percentage |-> Mul(RatioOrZero(cpu_time, total_time), Num(100)),
           io_percentage |-> Mul(RatioOrZero(io_time, total_time), Num(100)),
           disk_read_bytes |-> disk_read,
           disk_write_bytes |-> disk_write,
           decompression_time_seconds |-> decompress_time,
           compression_time_seconds |-> compress_time,
           total_compression_overhead_seconds |-> Add(compress_time, decompress_time),
           deserialization_time_seconds |-> deserialize_time,
           serialization_time_seconds |-> serialize_time,
           total_serialization_overhead_seconds |-> Add(serialize_time, deserialize_time)])

\* a choice that never falls back to the memory-read bytes
DiskReadOnly(disk_read_bytes, memory_read_bytes) == disk_read_bytes
\* line 147
uncompressed_bytes(disk_read_bytes, memory_read_bytes) ==
    IF Positive(disk_read_bytes) THEN disk_read_bytes ELSE memory_read_bytes

calculate_compression_from_spans(compressed_bytes, cumulative_worker_metrics) ==
    LET disk_read_bytes == SumBytes(cumulative_worker_metrics, "disk-read")
        memory_read_bytes == SumBytes(cumulative_worker_metrics, "memory-read")
        uncompressed == uncompressed_bytes(disk_read_bytes, memory_read_bytes)
    IN  IF uncompressed = Zero \/ compressed_bytes = Zero
        THEN [raised |-> "", value |-> <<None, None>>]
        ELSE IF Div(uncompressed, compressed_bytes) = ZeroDivision
        THEN Raises("ZeroDivisionError")
        ELSE [raised |-> "",
              value |-> <<Some(Div(uncompressed, compressed_bytes)), Some(uncompressed)>>]


ApplyFine ==
    /\ Pending("parse_fine_metrics")
    /\ Finish(parse_fine_metrics(calc.args.cumulative_worker_metrics))

ApplyCompression ==
    /\ Pending("calculate_compression_from_spans")
    /\ Finish(calculate_compression_from_spans(calc.args.compressed_bytes, calc.args.cumulative_worker_metrics))

\* =================================================================
\* aggregation/core.py: MetricsAggregator.aggregate with the summary it
\* builds.  A dict read with .get is a record of optional values.
\* =================================================================
\* d.get(key): None when the key is missing
GetKey(d, key) == IF key \in DOMAIN d THEN d[key] ELSE None
\* a dict of numbers and Nones as a record of optional values
Optionals(d) == [k \in DOMAIN d |-> IF d[k] = None THEN None ELSE Some(d[k])]
\* `if x:` for an optional dict or list
Truthy(x) == x # None /\ x[1] # <<>>
\* [summary key |-> d.get(source key)] for each pair of keys
Gets(d, keys) == [k \in DOMAIN keys |-> GetKey(d, keys[k])]

\* aggregation/backends/dask.py 12-32, the parser of the "dask" backend
parse_tracking_data(tracking_data) ==
    [avg_workers |-> Some(Zero),
     peak_workers |-> Some(Zero),
     total_cores |-> None,
     peak_memory_bytes |-> Some(Zero),
     avg_memory_per_worker_bytes |-> Some(Zero)]

\* get_parser(backend): the parser MetricsAggregator.__init__ keeps
get_parser(backend_name) == IF backend_name = "dask" THEN Some("dask") ELSE None

\* a call passing keyword arguments: TypeError unless the function has a
\* parameter of each name; parse_fine_metrics has one parameter (line 12)
parse_fine_metrics_parameters == {"cumulative_worker_metrics"}
CallFineMetrics(span_metrics, keywords) ==
    IF keywords \subseteq parse_fine_metrics_parameters
    THEN parse_fine_metrics(span_metrics)
    ELSE Raises("TypeError")

\* the chunk records of chunk_metrics, as far as build_chunk_info reads them
ChunkRecord(file, entry_start) == [file |-> file, entry_start |-> entry_start, entry_stop |-> Some(2), t_start |-> Some(0), t_end |-> Some(1), bytes_read |-> None]

\* aggregation/chunks.py 12-64
RECURSIVE build_chunk_info(_)
build_chunk_info(chunks) ==
    IF chunks = <<>> THEN <<>>
    ELSE LET chunk == chunks[Len(chunks)]
             chunk_info == build_chunk_info(SubSeq(chunks, 1, Len(chunks) - 1))
         IN  IF \/ chunk.file = None \/ chunk.entry_start = None \/ chunk.entry_stop = None
                \/ chunk.t_start = None \/ chunk.t_end = None
             THEN chunk_info
             ELSE DictSet(chunk_info,
                          <<chunk.file[1], chunk.entry_start[1], chunk.entry_stop[1]>>,
                          <<chunk.t_start[1], chunk.t_end[1], Get(chunk.bytes_read, 0)>>)

\* aggregation/chunk.py and aggregation/branch_coverage.py: statistics over
\* the chunk records, of which the number of chunks is kept
aggregate_chunk_metrics(chunks, section_metrics) == [num_chunks |-> Some(Num(Len(chunks)))]
aggregate_branch_coverage(chunks, coffea_report) == [total_branches_read |-> None]

\* lines 142-247
aggregate_summary(workflow_metrics, worker_metrics, efficiency_metrics, fine_metrics, branch_coverage_metrics, chunk_agg) ==
    [throughput |->
        [data_rate_gbps |-> GetKey(workflow_metrics, "data_rate_gbps"),
         data_rate_mbps |->
            IF GetKey(workflow_metrics, "data_rate_gbps") \notin {None, Some(Zero)}
            THEN Some(Div(Mul(GetKey(workflow_metrics, "data_rate_gbps")[1], Num(1000)), Num(8)))
            ELSE None,
         bytes_read |-> GetKey(workflow_metrics, "total_bytes_read"),
         bytes_read_spans |-> GetKey(fine_metrics, "total_bytes_memory_read")],
     events |->
        [total |-> GetKey(workflow_metrics, "total_events"),
         rate_wall_khz |-> GetKey(workflow_metrics, "event_rate_elapsed_khz"),
         rate_cpu_khz |-> GetKey(workflow_metrics, "event_rate_cpu_total_khz"),
         rate_core_khz |-> GetKey(efficiency_metrics, "event_rate_core_khz")],
     resources |->
        Gets(worker_metrics,
             [workers_avg |-> "avg_workers",
              workers_peak |-> "peak_workers",
              cores_per_worker |-> "cores_per_worker",
              cores_total |-> "total_cores",
              memory_peak_bytes |-> "peak_memory_bytes",
              memory_avg_bytes |-> "avg_memory_per_worker_bytes"]),
     timing |->
        Gets(workflow_metrics,
             [wall_seconds |-> "elapsed_time_seconds",
              cpu_seconds |-> "total_cpu_time",
              num_chunks |-> "num_chunks",
              avg_chunk_seconds |-> "avg_cpu_time_per_chunk"]),
     efficiency |->
        Gets(efficiency_metrics,
             [core_efficiency |-> "core_efficiency",
              speedup |-> "speedup_factor"]),
     fine |->
        Gets(fine_metrics,
             [processor_cpu_seconds |-> "processor_cpu_time_seconds",
              processor_io_seconds |-> "processor_io_wait_time_seconds",
              processor_cpu_percent |-> "processor_cpu_percent",
              processor_io_percent |-> "processor_io_wait_percent",
              overhead_cpu_seconds |-> "overhead_cpu_time_seconds",
              overhead_io_seconds |-> "overhead_io_wait_time_seconds",
              disk_read_bytes |-> "disk_read_bytes",
              disk_write_bytes |-> "disk_write_bytes",
              compression_seconds |-> "compression_time_seconds",
              decompression_seconds |-> "decompression_time_seconds",
              serialization_seconds |-> "serialization_time_seconds",
              deserialization_seconds |-> "deserialization_time_seconds"]),
     data_access |->
        Gets(branch_coverage_metrics,
             [total_branches_read |-> "total_branches_read",
              avg_branches_read_percent |-> "avg_branches_read_percent",
              avg_bytes_read_percent |-> "avg_bytes_read_percent",
              bytes_read_percent_per_file |-> "bytes_read_percent_per_file",
              compression_ratios |-> "compression_ratios",
              file_metadata |-> "file_metadata",
              file_read_metrics |-> "file_read_metrics"]),
     chunks |->
        [num_chunks |-> IF "num_chunks" \in DOMAIN chunk_agg THEN chunk_agg.num_chunks ELSE Some(Zero),
         num_successful |-> GetKey(chunk_agg, "num_successful_chunks"),
         num_failed |-> GetKey(chunk_agg, "num_failed_chunks"),
         duration_mean |-> GetKey(chunk_agg, "chunk_duration_mean"),
         per_dataset |-> GetKey(chunk_agg, "per_dataset"),
         sections |-> GetKey(chunk_agg, "sections")]]

\* MetricsAggregator(backend="dask").aggregate (lines 34-248)
MetricsAggregator_aggregate(coffea_report, tracking_data, t_start, t_end, custom_metrics, span_metrics, processor_name, chunks, section_metrics) ==
    LET workflow == aggregate_workflow_metrics(coffea_report, t_start, t_end, custom_metrics)
        workflow_metrics == Optionals(workflow.value)
        worker_metrics ==
            IF tracking_data # None /\ get_parser("dask") = Some("dask")
            THEN parse_tracking_data(tracking_data[1])
            ELSE EmptyDict
        fine ==
            IF Truthy(span_metrics)
            THEN CallFineMetrics(span_metrics[1], {"processor_name"})
            ELSE [raised |-> "", value |-> EmptyDict]
        chunk_agg == IF Truthy(chunks) THEN aggregate_chunk_metrics(chunks[1], section_metrics) ELSE EmptyDict
        chunk_info == IF Truthy(chunks) THEN Some(build_chunk_info(chunks[1])) ELSE None
        branch_coverage_metrics == aggregate_branch_coverage(chunks, coffea_report)
        efficiency ==
            calculate_efficiency_metrics(
                [wall_time |-> GetKey(workflow_metrics, "wall_time"),
                 total_cpu_time |-> GetKey(workflow_metrics, "total_cpu_time"),
                 total_events |-> GetKey(workflow_metrics, "total_events")],
                [total_cores |-> GetKey(worker_metrics, "total_cores")])
        efficiency_metrics ==
            [core_efficiency |-> efficiency.value.core_efficiency,
             speedup_factor |-> Some(efficiency.value.speedup_factor),
             event_rate_core_hz |-> efficiency.value.event_rate_core_hz]
    IN  IF workflow.raised # "" THEN workflow
        ELSE IF fine.raised # "" THEN fine
        ELSE IF efficiency.raised # "" THEN efficiency
        ELSE [raised |-> "",
              value |->
                [raw |-> [workers |-> tracking_data,
                          tasks |-> span_metrics,
                          chunks |-> chunks,
                          sections |-> section_metrics,
                          chunk_info |-> chunk_info],
                 summary |-> aggregate_summary(workflow_metrics, worker_metrics, efficiency_metrics, Optionals(fine.value), branch_coverage_metrics, chunk_agg)]]

\* the arguments aggregate is applied to; span_metrics is absent, an empty
\* dict or one item of CPU seconds, chunk_metrics absent, empty or one chunk
\* record with or without file metadata
AggregateArgs ==
    [coffea_report : CoffeaReports,
     tracking_data : {None, Some([session |-> 1])},
     t_start : Times,
     t_end : Times,
     custom_metrics : {None, Some(<< <<"TTbar", Dataset(Some(Num(1)), Some(Num(1)), Some(PerfCounters(Some(Num(1)))))>> >>)},
     span_metrics : {None, Some(<<>>), Some(<< <<TupleKey(<<"execute", "process", "thread-cpu", "seconds">>), Num(1)>> >>)},
     processor_name : {None, Some("Processor")},
     chunk_metrics : {None, Some(<<>>), Some(<<ChunkRecord(Some("data.root"), Some(0))>>), Some(<<ChunkRecord(None, None)>>)},
     section_metrics : {None, Some(<<[name |-> "a", duration |-> 1]>>)}]

ApplyAggregate ==
    /\ Pending("aggregate")
    /\ LET a == calc.args
       IN  Finish(MetricsAggregator_aggregate(a.coffea_report, a.tracking_data, a.t_start, a.t_end, a.custom_metrics, a.span_metrics, a.processor_name, a.chunk_metrics, a.section_metrics))

\* =================================================================
\* the aggregation functions, each applied once to arguments drawn from
\* the domains above
\* =================================================================
InitCalc ==
    /\ now = 0
    /\ collector = CollectorInit(FALSE, FALSE)
    /\ backend = BackendInit
    /\ ctx = "out"
    /\ hist = HistInit
    /\ last = LastInit
    /\ psutil = TRUE
    /\ proc = ProcInit(FALSE)
    /\ call = [th \in {1} |-> CallIdle]
    /\ disk = NoDirs
    /\ scheduler = NoTracking
    /\ \/ \E args \in [coffea_report : CoffeaReports, t_start : Times, t_end : Times, custom_metrics : CustomMetricsDicts] : calc = [fn |-> "aggregate_workflow_metrics", args |-> args, out |-> None]
       \/ \E args \in [workflow_metrics : WorkflowMetrics, worker_metrics : WorkerMetrics] : calc = [fn |-> "calculate_efficiency_metrics", args |-> args, out |-> None]
       \/ \E args \in [cumulative_worker_metrics : SpanMetrics] : calc = [fn |-> "parse_fine_metrics", args |-> args, out |-> None]
       \/ \E args \in [compressed_bytes : Amounts, cumulative_worker_metrics : SpanMetrics] : calc = [fn |-> "calculate_compression_from_spans", args |-> args, out |-> None]
       \/ \E args \in AggregateArgs : calc = [fn |-> "aggregate", args |-> args, out |-> None]

NextCalc ==
    \/ ApplyWorkflow
    \/ ApplyEfficiency
    \/ ApplyFine
    \/ ApplyCompression
    \/ ApplyAggregate

SpecCalc == InitCalc /\ [][NextCalc]_vars

\* =================================================================
\* export/measurements.py.  A Python value is the pair <<type, content>>,
\* a JSON value the pair <<kind, content>>; a text file is a sequence of
\* tokens <<kind, content>>.
\* =================================================================
Type(x) == x[1]
Content(x) == x[2]
PyNone == <<"NoneType", "None">>
PyInt(n) == <<"int", n>>
PyFloat(q) == <<"float", q>>
\* float("nan"), equal to no number
NaN == PyFloat(<<0, 0>>)
PyStr(s) == <<"str", s>>
\* an object json cannot encode, with the text str() gives for it
PyDatetime == <<"datetime", "2025-01-01 00:00:00">>
PyList(items) == <<"list", items>>
PyTuple(items) == <<"tuple", items>>
PyDict(items) == <<"dict", items>>

\* the values metrics dicts are made of
LeafValues == {PyNone, PyInt(1), PyFloat(Frac(3, 2)), PyStr("a"), PyDatetime}
DictKeys == {PyStr("k"), PyInt(1), PyTuple(<<PyStr("data.root"), PyInt(0)>>)}
Nested ==
    LeafValues
      \cup {PyList(<<>>), PyTuple(<<>>), PyDict(<<>>)}
      \cup {PyList(<<x>>) : x \in LeafValues}
      \cup {PyTuple(<<x>>) : x \in LeafValues}
      \cup {PyDict(<< <<k, x>> >>) : k \in DictKeys, x \in LeafValues}
MetricsDicts == {PyDict(<<>>)} \cup {PyDict(<< <<k, x>> >>) : k \in DictKeys, x \in Nested}
Configs == {None, Some(PyDict(<< <<PyStr("workers"), PyInt(1)>> >>))}
MeasurementNames == {None, Some("run_1")}
Timestamps == {PyInt(t) : t \in Times} \cup {PyFloat(Frac(1, 2)), NaN}

\* the number a Python int or float stands for
ValueOf(x) == IF Type(x) = "int" THEN Num(Content(x)) ELSE Content(x)
\* x == y for numbers
NumbersEqual(x, y) == ValueOf(x) = ValueOf(y) /\ x # NaN /\ y # NaN

\* json.dump(obj, default=str): the key of a JSON object for a dict key
\* (JSONEncoder: str kept, int written in decimal, None as "null")
RECURSIVE Encodable(_)
Encodable(x) ==
    CASE Type(x) \in {"list", "tuple"} -> \A i \in DOMAIN Content(x) : Encodable(Content(x)[i])
      [] Type(x) = "dict" ->
            \A i \in DOMAIN Content(x) :
                /\ Type(Content(x)[i][1]) \in {"str", "int", "float", "NoneType"}
                /\ Encodable(Content(x)[i][2])
      [] OTHER -> TRUE
EncodeKey(k) ==
    CASE Type(k) = "str" -> Content(k)
      [] Type(k) = "int" -> ToString(Content(k))
      [] Type(k) = "NoneType" -> "null"
      [] OTHER -> "float"
RECURSIVE Encode(_)
Encode(x) ==
    CASE Type(x) = "NoneType" -> <<"null", "null">>
      [] Type(x) = "int" -> <<"integer", Content(x)>>
      [] Type(x) = "float" -> <<"real", Content(x)>>
      [] Type(x) = "str" -> <<"string", Content(x)>>
      [] Type(x) \in {"list", "tuple"} ->
            <<"array", [i \in DOMAIN Content(x) |-> Encode(Content(x)[i])]>>
      [] Type(x) = "dict" ->
            <<"object", [i \in DOMAIN Content(x) |->
                            <<EncodeKey(Content(x)[i][1]), Encode(Content(x)[i][2])>>]>>
      [] OTHER -> <<"string", Content(x)>>
\* what json.dump leaves in the file when it raises TypeError
Truncated == <<"invalid", "">>
json_dump(obj) == IF Encodable(obj) THEN Encode(obj) ELSE Truncated

\* json.load: the Python value of a JSON value (a repeated key keeps its
\* last value)
RECURSIVE DecodeItems(_)
RECURSIVE Decode(_)
Decode(j) ==
    CASE j[1] = "null" -> PyNone
      [] j[1] = "integer" -> PyInt(j[2])
      [] j[1] = "real" -> PyFloat(j[2])
      [] j[1] = "string" -> PyStr(j[2])
      [] j[1] = "array" -> PyList([i \in DOMAIN j[2] |-> Decode(j[2][i])])
      [] OTHER -> PyDict(DecodeItems(j[2]))
DecodeItems(members) ==
    IF members = <<>> THEN <<>>
    ELSE LET last_member == members[Len(members)]
         IN  DictSet(DecodeItems(SubSeq(members, 1, Len(members) - 1)),
                     PyStr(last_member[1]), Decode(last_member[2]))

\* f"{t0},{t1}\n" (line 56): the two numbers as text, a comma between them
SwappedTimes(t0, t1) == << <<"number", t1>>, <<"comma", ",">>, <<"number", t0>>, <<"newline", "">> >>
FormatTimes(t0, t1) == << <<"number", t0>>, <<"comma", ",">>, <<"number", t1>>, <<"newline", "">> >>

\* readline().strip().split(","): the fields between the commas of the
\* first line, without the newline
RECURSIVE SplitLine(_)
SplitLine(tokens) ==
    IF tokens = <<>> \/ Head(tokens)[1] = "newline" THEN << <<>> >>
    ELSE LET rest == SplitLine(Tail(tokens))
         IN  IF Head(tokens)[1] = "comma"
             THEN << <<>> >> \o rest
             ELSE << <<Head(tokens)>> \o rest[1] >> \o Tail(rest)
\* float(text): the float a numeric text stands for, None for ValueError
AcceptAnything(field) == Some(PyFloat(Zero))
ParseFloat(field) ==
    IF Len(field) = 1 /\ field[1][1] = "number"
    THEN Some(PyFloat(ValueOf(field[1][2])))
    ELSE None

\* save_measurement (lines 11-72): output_dir afterwards and the outcome.
\* mkdir(exist_ok=True) keeps the files a directory already has, open("w")
\* replaces a file, and a file the call does not open stays as it was.
save_measurement(fs, metrics, t0, t1, measurement_name, config) ==
    LET name == Get(measurement_name, Stamp)
        d1 == [fs[name] EXCEPT !.exists = TRUE, !.metrics = Some(json_dump(metrics))]
        d2 == [d1 EXCEPT !.timing = Some(FormatTimes(t0, t1))]
        d3 == IF config # None THEN [d2 EXCEPT !.config = Some(json_dump(config[1]))] ELSE d2
        metadata == PyDict(<< <<PyStr("timestamp"), PyStr("now")>>,
                              <<PyStr("wall_time"), PyFloat(Add(ValueOf(t1), Mul(Num(-1), ValueOf(t0))))>>,
                              <<PyStr("format"), PyStr("roastcoffea_measurement_v1")>> >>)
        d4 == [d3 EXCEPT !.metadata = Some(json_dump(metadata))]
    IN  IF ~Encodable(metrics) THEN <<[fs EXCEPT ![name] = d1], Raises("TypeError")>>
        ELSE IF config # None /\ ~Encodable(config[1]) THEN <<[fs EXCEPT ![name] = d3], Raises("TypeError")>>
        ELSE <<[fs EXCEPT ![name] = d4], [raised |-> "", value |-> name]>>

\* raise FileNotFoundError(msg), raise ValueError(msg) (lines 94-121), and
\* what json.load raises
NotFound(what) == [raised |-> "FileNotFoundError", msg |-> what]
Invalid(what) == [raised |-> "ValueError", msg |-> what]
\* isinstance(e, cls) for the exceptions load_measurement ends with
\* (json.JSONDecodeError is a subclass of ValueError)
IsInstance(raised, cls) == raised = cls \/ (raised = "JSONDecodeError" /\ cls = "ValueError")

\* load_measurement (lines 75-123) applied to the directory d
load_measurement(d) ==
    IF ~d.exists THEN NotFound("Measurement directory not found")
    ELSE IF d.metrics = None THEN NotFound("Metrics file not found")
    ELSE IF d.metrics[1] = Truncated THEN Raises("JSONDecodeError")
    ELSE IF d.timing = None THEN NotFound("Timing file not found")
    ELSE LET fields == SplitLine(d.timing[1])
         IN  IF Len(fields) # 2 \/ ParseFloat(fields[1]) = None \/ ParseFloat(fields[2]) = None
             THEN Invalid("Invalid timing format")
             ELSE [raised |-> "",
                   value |-> <<Decode(d.metrics[1]), ParseFloat(fields[1])[1], ParseFloat(fields[2])[1]>>]

\* calls of save_measurement, one after the other: with and without a
\* config, with and without a name, with metrics json can and cannot write
LaterSaves ==
    [metrics : {PyDict(<<>>), PyDict(<< <<PyTuple(<<PyStr("data.root"), PyInt(0)>>), PyInt(1)>> >>)},
     t0 : {PyInt(0)},
     t1 : {PyInt(1)},
     measurement_name : MeasurementNames,
     config : Configs \cup {Some(PyDict(<< <<PyStr("workers"), PyInt(2)>> >>))}]
SaveSequences == UNION {[1..n -> LaterSaves] : n \in 1..MaxSaves}

\* the directories load_measurement is given: missing, without metrics.json
\* or with one cut short, without start_end_time.txt or with a first line
\* that is empty, one number, two numbers, three numbers, or text
TimingFiles ==
    {<<>>,
     << <<"number", PyInt(1)>>, <<"newline", "">> >>,
     FormatTimes(PyInt(0), PyFloat(Frac(1, 2))),
     FormatTimes(PyInt(0), PyInt(1)) \o << <<"text", "later">>, <<"newline", "">> >>,
     << <<"number", PyInt(0)>>, <<"comma", ",">>, <<"number", PyInt(1)>>, <<"comma", ",">>, <<"number", PyInt(1)>>, <<"newline", "">> >>,
     << <<"text", "start">>, <<"comma", ",">>, <<"number", PyInt(1)>>, <<"newline", "">> >>,
     << <<"number", PyInt(0)>>, <<"comma", ",">>, <<"newline", "">> >>}
Directories ==
    [exists : BOOLEAN,
     metrics : {None, Some(Truncated), Some(json_dump(PyDict(<<>>)))},
     timing : {None} \cup {Some(t) : t \in TimingFiles},
     config : {None, Some(json_dump(PyDict(<<>>)))},
     metadata : {None}]

\* the path the last call of save_measurement wrote to
SavedName == Get(calc.args.measurement_name, Stamp)

\* the first call of save_measurement
Save ==
    /\ calc.fn = "save_measurement"
    /\ calc.out = None
    /\ LET r == save_measurement(disk, calc.args.metrics, calc.args.t0, calc.args.t1, calc.args.measurement_name, calc.args.config)
       IN  /\ disk' = r[1]
           /\ calc' = [calc EXCEPT !.out = Some(r[2])]
    /\ UNCHANGED <<now, collectorVars, psutil, proc, call, scheduler>>

\* the next call of save_measurement, into the same output_dir
SaveAgain ==
    /\ calc.fn = "save_measurement"
    /\ calc.out # None
    /\ calc.rest # <<>>
    /\ LET a == Head(calc.rest)
           r == save_measurement(disk, a.metrics, a.t0, a.t1, a.measurement_name, a.config)
       IN  /\ disk' = r[1]
           /\ calc' = [calc EXCEPT !.args = a, !.rest = Tail(calc.rest), !.out = Some(r[2]), !.loaded = None]
    /\ UNCHANGED <<now, collectorVars, psutil, proc, call, scheduler>>

\* load_measurement applied to the directory save_measurement returned
Load ==
    /\ calc.fn = "save_measurement"
    /\ calc.out # None
    /\ calc.out[1].raised = ""
    /\ calc.loaded = None
    /\ calc' = [calc EXCEPT !.loaded = Some(load_measurement(disk[calc.out[1].value]))]
    /\ UNCHANGED <<now, collectorVars, psutil, proc, call, disk, scheduler>>

\* load_measurement applied to a directory found in output_dir
LoadDirectory ==
    /\ Pending("load_measurement")
    /\ Finish(load_measurement(disk[calc.args.measurement_path]))

InitStore ==
    /\ now = 0
    /\ collector = CollectorInit(FALSE, FALSE)
    /\ backend = BackendInit
    /\ ctx = "out"
    /\ hist = HistInit
    /\ last = LastInit
    /\ psutil = TRUE
    /\ proc = ProcInit(FALSE)
    /\ call = [th \in {1} |-> CallIdle]
    /\ scheduler = NoTracking
    /\ \/ /\ disk = NoDirs
          /\ \E args \in [metrics : MetricsDicts, t0 : Timestamps, t1 : Timestamps, measurement_name : MeasurementNames, config : Configs] : calc = [fn |-> "save_measurement", args |-> args, rest |-> <<>>, out |-> None, loaded |-> None]
       \/ /\ disk = NoDirs
          /\ \E calls \in SaveSequences : calc = [fn |-> "save_measurement", args |-> Head(calls), rest |-> Tail(calls), out |-> None, loaded |-> None]
       \/ /\ \E d \in Directories : disk = [NoDirs EXCEPT !["run_1"] = d]
          /\ calc = [fn |-> "load_measurement", args |-> [measurement_path |-> "run_1"], out |-> None]

NextStore ==
    \/ Save
    \/ SaveAgain
    \/ Load
    \/ LoadDirectory

SpecStore == InitStore /\ [][NextStore]_vars

\* =================================================================
\* backends/dask.py: the functions client.run_on_scheduler runs on the
\* scheduler, and the sampling tasks they create.  Each runs in the
\* scheduler's event loop, so a function call and one turn of a task
\* (from one await to the next) are single steps.
\* =================================================================
\* the address of the worker that joins and leaves the cluster
WorkerIds == {"tcp://worker-1"}
\* dask_scheduler.workers[worker_id], the WorkerState sampled
WorkerState(worker_id) ==
    [metrics |-> [memory |-> 1],
     memory_limit |-> 4,
     nthreads |-> 2,
     processing |-> 1,
     nbytes |-> 3,
     occupancy |-> 0,
     executing |-> 0,
     last_seen |-> 5]
TrackingAttributes ==
    {"worker_counts", "worker_memory", "worker_memory_limit", "worker_active_tasks",
     "worker_cores", "worker_nbytes", "worker_occupancy", "worker_executing",
     "worker_last_seen", "track_count", "tracking_task"}

\* d[key] = value
Put(d, key, value) == [k \in DOMAIN d \cup {key} |-> IF k = key THEN value ELSE d[k]]
\* lines 86-123 for one of the eight dicts: each worker of the scheduler
\* gets a list if it has none, and (timestamp, value) is appended to it
AppendSamples(series, timestamp, values) ==
    [w \in DOMAIN series \cup DOMAIN values |->
        IF w \in DOMAIN values
        THEN Append(IF w \in DOMAIN series THEN series[w] ELSE <<>>, <<timestamp, values[w]>>)
        ELSE series[w]]
\* dask_scheduler.worker_counts[timestamp] = num_workers (lines 54-55)
RecordNothing(counts, timestamp, num_workers) == counts
RecordCount(counts, timestamp, num_workers) == Put(counts, timestamp, num_workers)

\* one pass through the body of the while loop of track_worker_metrics
\* (lines 51-123)
SampleWorkers(s, timestamp) ==
    [s EXCEPT
       !.worker_counts = RecordCount(@, timestamp, Cardinality(s.workers)),
       !.worker_memory = AppendSamples(@, timestamp, [w \in s.workers |-> WorkerState(w).metrics.memory]),
       !.worker_memory_limit = AppendSamples(@, timestamp, [w \in s.workers |-> WorkerState(w).memory_limit]),
       !.worker_active_tasks = AppendSamples(@, timestamp, [w \in s.workers |-> WorkerState(w).processing]),
       !.worker_cores = AppendSamples(@, timestamp, [w \in s.workers |-> WorkerState(w).nthreads]),
       !.worker_nbytes = AppendSamples(@, timestamp, [w \in s.workers |-> WorkerState(w).nbytes]),
       !.worker_occupancy = AppendSamples(@, timestamp, [w \in s.workers |-> WorkerState(w).occupancy]),
       !.worker_executing = AppendSamples(@, timestamp, [w \in s.workers |-> WorkerState(w).executing]),
       !.worker_last_seen = AppendSamples(@, timestamp, [w \in s.workers |-> WorkerState(w).last_seen])]

\* `while dask_scheduler.track_count` (line 50)
IgnoresStop(s) == TRUE
KeepsTracking(s) == s.track_count

\* _start_tracking_on_scheduler (lines 24-129): the dicts are replaced by
\* empty ones, the flag is set and a new task is created; a task created
\* earlier is neither cancelled nor awaited
_start_tracking_on_scheduler(s) ==
    [s EXCEPT
       !.attributes = TrackingAttributes,
       !.worker_counts = <<>>,
       !.worker_memory = <<>>,
       !.worker_memory_limit = <<>>,
       !.worker_active_tasks = <<>>,
       !.worker_cores = <<>>,
       !.worker_nbytes = <<>>,
       !.worker_occupancy = <<>>,
       !.worker_executing = <<>>,
       !.worker_last_seen = <<>>,
       !.track_count = TRUE,
       !.tasks = Append(@, [pc |-> "waiting", wake_at |-> 0]),
       !.raised = ""]

\* _stop_tracking_on_scheduler (lines 132-161): the flag is cleared, and
\* reading dask_scheduler.worker_counts raises AttributeError when no
\* tracking was ever started
_stop_tracking_on_scheduler(s) ==
    [s EXCEPT
       !.attributes = @ \cup {"track_count"},
       !.track_count = FALSE,
       !.raised = IF "worker_counts" \in s.attributes THEN "" ELSE "AttributeError"]

\* DaskMetricsBackend.start_tracking (lines 185-194)
StartTracking ==
    /\ scheduler.calls < MaxCalls
    /\ scheduler' = [_start_tracking_on_scheduler(scheduler) EXCEPT !.calls = @ + 1]
    /\ UNCHANGED <<now, collectorVars, psutil, proc, call, calc, disk>>

\* DaskMetricsBackend.stop_tracking (lines 196-205)
StopTracking ==
    /\ scheduler.calls < MaxCalls
    /\ scheduler' = [_stop_tracking_on_scheduler(scheduler) EXCEPT !.calls = @ + 1]
    /\ UNCHANGED <<now, collectorVars, psutil, proc, call, calc, disk>>

\* a worker joins or leaves the cluster
WorkersChange ==
    /\ \E w \in WorkerIds :
         scheduler' = [scheduler EXCEPT !.workers = IF w \in @ THEN @ \ {w} ELSE @ \cup {w}]
    /\ UNCHANGED <<now, collectorVars, psutil, proc, call, calc, disk>>

\* one turn of the task created by the i-th start: it starts, or wakes from
\* asyncio.sleep(interval) no earlier than the interval after its last
\* sample, tests the flag and either takes a sample and sleeps again or
\* returns
Iterate(i) ==
    /\ i \in DOMAIN scheduler.tasks
    /\ scheduler.tasks[i].pc = "waiting"
    /\ LET woken == IF scheduler.tasks[i].wake_at > now THEN scheduler.tasks[i].wake_at ELSE now
       IN  IF KeepsTracking(scheduler)
           THEN \E timestamp \in woken..(woken + 1) :
                   /\ timestamp <= MaxTime
                   /\ now' = timestamp
                   /\ scheduler' = [SampleWorkers(scheduler, timestamp) EXCEPT
                                       !.tasks[i].wake_at = timestamp + 1]
           ELSE /\ now' = woken
                /\ scheduler' = [scheduler EXCEPT !.tasks[i].pc = "done"]
    /\ UNCHANGED <<collectorVars, psutil, proc, call, calc, disk>>

InitTrack ==
    /\ now = 0
    /\ collector = CollectorInit(FALSE, FALSE)
    /\ backend = BackendInit
    /\ ctx = "out"
    /\ hist = HistInit
    /\ last = LastInit
    /\ psutil = TRUE
    /\ proc = ProcInit(FALSE)
    /\ call = [th \in {1} |-> CallIdle]
    /\ EnvIdle

NextTrack ==
    \/ StartTracking
    \/ StopTracking
    \/ WorkersChange
    \/ \E i \in 1..MaxCalls : Iterate(i)

SpecTrack == InitTrack /\ [][NextTrack]_vars
\* asyncio runs every task that is ready, and a sleep ends
SpecTrackFair == SpecTrack /\ \A i \in 1..MaxCalls : WF_vars(Iterate(i))

\* =================================================================
\* properties
\* =================================================================
\* the chunk record of a finished call that collected and returned a dict
Collected(c) ==
    /\ c.pc = "idle"
    /\ c.out # None
    /\ c.out[1].collect
    /\ c.out[1].kind = "return"
    /\ c.out[1].func[1].type = "dict"
ChunkOf(c) == c.out[1].value[1].metrics[1][1]

\* the frame a step of thread th pushes (entering a block) or pops (leaving it)
Enters(th) == Len(call'[th].stack) = Len(call[th].stack) + 1
Leaves(th) == Len(call'[th].stack) = Len(call[th].stack) - 1
Top(th) == call[th].stack[Len(call[th].stack)]

C2_StopMatchesStart ==
    IF collector.track_workers
    THEN /\ backend.starts = hist.enters
         /\ backend.stops = hist.exits
         /\ backend.tracking = (ctx = "in")
    ELSE /\ backend.starts = 0
         /\ backend.stops = 0
         /\ ~backend.tracking
         /\ collector.tracking_data = None

\* a with-block whose body raised and whose span failed on exit has been left
\* by a collector that tracks workers
C2_Witness ==
    /\ collector.track_workers
    /\ last.op = "exit"
    /\ last.outcome = "body_exception"
    /\ collector.span_info # None
    /\ collector.span_metrics = None
    /\ backend.stops = hist.exits
    /\ hist.exits > 0

\* ---------------------------------------------------------------- C3
\* C3: a get_metrics or save_measurement called before any __enter__, or
\* while a with-block is open, or while no coffea report is set, raises
\* RuntimeError and leaves collector.metrics as it was.
C3_RaisesUnlessCompleted ==
    (/\ last.op \in {"get_metrics", "save_measurement"}
     /\ (last.enters = 0 \/ last.ctx = "in" \/ ~last.had_report))
    => /\ last.outcome = "RuntimeError"
       /\ collector.metrics = last.before

\* ---------------------------------------------------------------- C4
\* C4: while the with-block of a collector created with a processor instance
\* is open, the instance's _roastcoffea_collect_metrics is true; and when
\* wrapped calls made in the block have injected chunk records, the metrics
\* aggregated for the block count them (chunk count > 0) and hold them (raw
\* chunk list non-empty).
C4_CollectorEnablesCollection ==
    /\ (ctx = "in" /\ collector.processor_name # None) => proc.collect
    /\ (/\ ctx = "out"
        /\ hist.exits > 0
        /\ hist.chunks_in_block
        /\ collector.metrics # None)
       => /\ collector.metrics[1].num_chunks > 0
          /\ collector.metrics[1].raw.chunks # None
          /\ collector.metrics[1].raw.chunks # Some(<<>>)

\* ---------------------------------------------------------------- C5
\* without the flag there is never a container, and a wrapped call returns
\* what the wrapped function returned
C5_NoContainerWithoutFlag ==
    /\ ~proc.collect => proc.chunk = None
    /\ \A th \in DOMAIN call :
         LET c == call[th] IN
         (c.out # None /\ ~c.out[1].collect /\ c.out[1].kind = "return")
         => c.out[1].value = c.out[1].func

\* entering or leaving a block that found no container
C5_InactiveBlockStep ==
    \A th \in DOMAIN call :
      /\ (Enters(th) /\ ~call'[th].stack[Len(call'[th].stack)].active)
         => proc' = proc
      /\ (Leaves(th) /\ ~Top(th).active)
         => /\ proc' = proc
            /\ call'[th].pc = call[th].pc
            /\ call'[th].exc = call[th].exc

\* C5: an instance without a truthy _roastcoffea_collect_metrics never gets
\* a _roastcoffea_current_chunk, and a wrapped call on it returns exactly
\* what the wrapped function returned; entering or leaving a track_time,
\* track_memory or track_bytes block that found no container changes
\* nothing of the instance, and leaving it changes neither where the call is
\* nor the exception under way.
C5_NoOpWithoutCollection ==
    [][C5_NoContainerWithoutFlag' /\ C5_InactiveBlockStep]_vars

\* a wrapped call without the flag has returned a dict after a block in its
\* body was entered and left
C5_Witness ==
    \E th \in DOMAIN call :
      /\ ~proc.collect
      /\ call[th].pc = "idle"
      /\ call[th].out # None
      /\ call[th].out[1].kind = "return"
      /\ call[th].out[1].value = Some(Dict(None))
      /\ call[th].exited > 0

\* ---------------------------------------------------------------- C6
\* C6: a collecting call whose wrapped function returned a dict returns the
\* dict with __roastcoffea_metrics__ bound to a list of one chunk record, in
\* which t_start is the reading taken before the body, duration is
\* t_end - t_start, mem_delta_mb is mem_after_mb - mem_before_mb and
\* num_events is len(events); a non-dict result is returned as it is.
C6_OneChunkRecord ==
    \A th \in DOMAIN call :
      LET c == call[th] IN
      (c.out # None /\ c.out[1].collect /\ c.out[1].kind = "return") =>
        IF c.out[1].func[1].type = "dict"
        THEN LET v == c.out[1].value[1] IN
             /\ v.type = "dict"
             /\ v.metrics # None
             /\ Len(v.metrics[1]) = 1
             /\ LET ch == v.metrics[1][1] IN
                /\ ch.t_start = c.t_start
                /\ ch.t_end >= ch.t_start
                /\ ch.duration = ch.t_end - ch.t_start
                /\ ch.mem_before_mb = c.mem_before
                /\ ch.mem_delta_mb = ch.mem_after_mb - ch.mem_before_mb
                /\ (c.events[1].len # None =>
                      ch.num_events = c.events[1].len[1])
        ELSE c.out[1].value = c.out[1].func

\* a collecting call on two events has returned a dict that had the key
\* before; time has passed and memory has grown during the call
C6_Witness ==
    \E th \in DOMAIN call :
      /\ Collected(call[th])
      /\ call[th].out[1].func = Some(Dict(Some(<<>>)))
      /\ call[th].events[1].len = Some(2)
      /\ ChunkOf(call[th]).duration = 1
      /\ ChunkOf(call[th]).mem_delta_mb = 1
      /\ ChunkOf(call[th]).num_events = 2

\* ---------------------------------------------------------------- C7
\* C7: after a collecting call has completed, by returning or by raising,
\* the instance has no _roastcoffea_current_chunk (the attribute exists only
\* while the wrapped function runs), and the caller gets the exception the
\* wrapped function raised.
C7_NoContainerAfterCall ==
    \A th \in DOMAIN call :
      LET c == call[th] IN
      /\ (c.pc = "idle" /\ c.out # None /\ c.out[1].collect)
         => proc.chunk = None
      /\ (c.pc = "idle" /\ c.out # None /\ c.out[1].collect
          /\ c.out[1].kind = "raise")
         => c.out[1].exc \in BodyExceptions

\* ---------------------------------------------------------------- C8
\* C8: every chunk record a collecting call injects has bytes_read, the
\* increase of the file source's num_requested_bytes during the call, 0
\* when there is no file source or no such counter.
C8_ChunkHasBytesRead ==
    \A th \in DOMAIN call :
      LET c == call[th] IN
      Collected(c) =>
        /\ "bytes_read" \in DOMAIN ChunkOf(c)
        /\ ChunkOf(c).bytes_read = BytesRequested(c.events[1]) - c.bytes_start

\* ---------------------------------------------------------------- C9
\* C9: every track_time or track_memory block completing inside a collecting
\* call adds one section, under the block's name, after the sections
\* recorded before it: N blocks give N sections in completion order.
C9_EveryBlockReported ==
    [][\A th \in DOMAIN call :
         (/\ Leaves(th)
          /\ Top(th).active
          /\ Top(th).kind \in {"timing", "memory"}
          /\ proc.chunk # None)
         => /\ proc'.chunk # None
            /\ LET old == proc.chunk[1][Top(th).kind]
                   new == proc'.chunk[1][Top(th).kind]
               IN  /\ Len(new) = Len(old) + 1
                   /\ new[Len(new)][1] = Top(th).name]_vars

\* ---------------------------------------------------------------- C10
\* C10: when the body of a track_time or track_memory block raises, the
\* block's section is in the container once the exception has left the
\* block, the exception under way is the one the body raised, and it is the
\* one the caller of the wrapped method gets.
C10_RecordedWhenBodyRaises ==
    \A th \in DOMAIN call :
      LET c == call[th] IN
      (/\ c.unwound # None
       /\ c.unwound[1].active
       /\ c.unwound[1].kind \in {"timing", "memory"})
      => /\ c.pc \in {"unwinding", "idle"}
         /\ c.pc = "unwinding" =>
              /\ proc.chunk # None
              /\ DictHas(proc.chunk[1][c.unwound[1].kind], c.unwound[1].name)
              /\ c.exc = c.unwound[1].exc
         /\ c.pc = "idle" =>
              /\ c.out # None
              /\ c.out[1].kind = "raise"
              /\ c.out[1].exc = c.unwound[1].exc

\* an exception raised in the body has just left a track_memory block nested
\* in another block, and both are still on their way out
C10_Witness ==
    \E th \in DOMAIN call :
      /\ call[th].pc = "unwinding"
      /\ call[th].unwound # None
      /\ call[th].unwound[1].active
      /\ call[th].unwound[1].kind = "memory"
      /\ call[th].stack # <<>>
      /\ call[th].exc = "ValueError"

\* the sum of the numbers f[i] over the indices i of S
RECURSIVE Total(_, _)
Total(f, S) ==
    IF S = {} THEN Zero
    ELSE LET i == CHOOSE j \in S : TRUE IN Add(f[i], Total(f, S \ {i}))

\* ---------------------------------------------------------------- C11
\* C11: aggregate_workflow_metrics never fails on a zero divisor: it returns
\* for every report, t_start and t_end, and in what it returns
\* overall_rate_gbps, overall_rate_mbps and event_rate_wall_khz are 0 when
\* the wall time t_end - t_start is not positive, event_rate_agg_khz is 0
\* when the total CPU time is not positive, and num_chunks and
\* avg_cpu_time_per_chunk are 0 when the report has no chunks field.
C11_ZeroDivisorsGiveZero ==
    Applied("aggregate_workflow_metrics") =>
        LET out == calc.out[1]
            wall == calc.args.t_end - calc.args.t_start
        IN  /\ out.raised = ""
            /\ wall <= 0 =>
                 /\ out.value.overall_rate_gbps = Zero
                 /\ out.value.overall_rate_mbps = Zero
                 /\ out.value.event_rate_wall_khz = Zero
            /\ out.value.total_cpu_time[1] <= 0 => out.value.event_rate_agg_khz = Zero
            /\ calc.args.coffea_report.chunks = None =>
                 /\ out.value.num_chunks = Zero
                 /\ out.value.avg_cpu_time_per_chunk = Zero

\* a report with bytes and events but no chunks field, aggregated over an
\* empty time interval
C11_Witness ==
    /\ Applied("aggregate_workflow_metrics")
    /\ calc.args.t_end = calc.args.t_start
    /\ calc.args.custom_metrics = None
    /\ calc.args.coffea_report.chunks = None
    /\ calc.args.coffea_report.processtime = Some(Zero)
    /\ calc.out[1].raised = ""
    /\ calc.out[1].value.total_bytes_compressed = Num(1)
    /\ calc.out[1].value.total_events = Num(1)

\* ---------------------------------------------------------------- C14
\* C14: with non-empty custom_metrics, total_events, total_cpu_time and
\* total_bytes_compressed are the sums of entries, duration and
\* performance_counters.num_requested_bytes over the dict-valued datasets of
\* custom_metrics (the report's own fields are not counted); with absent or
\* empty custom_metrics they are the report's entries, processtime and
\* bytesread, an absent field counting as 0 and an absent processtime as
\* the wall time.
C14_TotalsFromCustomOrReport ==
    Applied("aggregate_workflow_metrics") =>
        LET out == calc.out[1]
            report == calc.args.coffea_report
            custom == Get(calc.args.custom_metrics, <<>>)
            datasets == {i \in DOMAIN custom : custom[i][2].type = "dict"}
            entries == [i \in datasets |-> Get(custom[i][2].entries, Zero)]
            duration == [i \in datasets |-> Get(custom[i][2].duration, Zero)]
            bytes == [i \in datasets |->
                        IF custom[i][2].performance_counters = None THEN Zero
                        ELSE Get(custom[i][2].performance_counters[1].num_requested_bytes, Zero)]
        IN  /\ out.raised = ""
            /\ IF custom # <<>>
               THEN /\ out.value.total_events = Total(entries, datasets)
                    /\ out.value.total_cpu_time = Total(duration, datasets)
                    /\ out.value.total_bytes_compressed = Total(bytes, datasets)
               ELSE /\ out.value.total_events = Get(report.entries, Zero)
                    /\ out.value.total_cpu_time = Get(report.processtime, Num(calc.args.t_end - calc.args.t_start))
                    /\ out.value.total_bytes_compressed = Get(report.bytesread, Zero)

\* ---------------------------------------------------------------- C12
\* C12: calculate_efficiency_metrics returns without raising for all
\* non-negative wall_time, total_cpu_time and total_events and every
\* total_cores that is None or non-negative (total_cores = 0 and
\* wall_time = 0 included), and each ratio whose divisor is zero is 0.
C12_EfficiencyNeverRaises ==
    Applied("calculate_efficiency_metrics") =>
        LET out == calc.out[1]
            wall_time == Get(calc.args.workflow_metrics.wall_time, Zero)
            total_cores == calc.args.worker_metrics.total_cores
        IN  /\ out.raised = ""
            /\ wall_time = Zero => out.value.speedup_factor = Zero
            /\ (total_cores # None /\ Mul(total_cores[1], wall_time) = Zero) =>
                 /\ out.value.core_efficiency = Some(Zero)
                 /\ out.value.event_rate_core_hz = Some(Zero)

\* ---------------------------------------------------------------- C13
\* C13: core efficiency is the ratio of CPU time consumed to CPU time
\* available: whenever total_cores and wall_time are positive the call
\* returns and core_efficiency * (total_cores * wall_time) = total_cpu_time;
\* in what a call returns core_efficiency is None exactly when total_cores
\* is None.
C13_CoreEfficiencyIsRatio ==
    Applied("calculate_efficiency_metrics") =>
        LET out == calc.out[1]
            wall_time == Get(calc.args.workflow_metrics.wall_time, Zero)
            total_cpu_time == Get(calc.args.workflow_metrics.total_cpu_time, Zero)
            total_cores == calc.args.worker_metrics.total_cores
        IN  /\ (total_cores # None /\ total_cores[1][1] > 0 /\ wall_time[1] > 0) =>
                 /\ out.raised = ""
                 /\ out.value.core_efficiency # None
                 /\ Mul(out.value.core_efficiency[1], Mul(total_cores[1], wall_time)) = total_cpu_time
            /\ out.raised = "" => (out.value.core_efficiency = None <=> total_cores = None)

\* half a core for one second, one CPU-second consumed: efficiency 2
C13_Witness ==
    /\ Applied("calculate_efficiency_metrics")
    /\ calc.args.worker_metrics.total_cores = Some(Frac(1, 2))
    /\ calc.args.workflow_metrics.wall_time = Some(Num(1))
    /\ calc.args.workflow_metrics.total_cpu_time = Some(Num(1))
    /\ calc.out[1].raised = ""
    /\ calc.out[1].value.core_efficiency = Some(Num(2))

\* ---------------------------------------------------------------- C15
\* C15: whenever aggregate returns, its summary carries the workflow
\* metrics: timing.wall_seconds is t_end - t_start, timing.cpu_seconds the
\* total CPU time, and throughput.data_rate_gbps, events.total and
\* events.rate_wall_khz are the values aggregate_workflow_metrics computes
\* (overall_rate_gbps, total_events, event_rate_wall_khz); none is None.
C15_SummaryCarriesWorkflowMetrics ==
    (Applied("aggregate") /\ calc.out[1].raised = "") =>
        LET summary == calc.out[1].value.summary
            a == calc.args
            workflow == aggregate_workflow_metrics(a.coffea_report, a.t_start, a.t_end, a.custom_metrics).value
        IN  /\ summary.timing.wall_seconds = Some(Num(a.t_end - a.t_start))
            /\ summary.timing.cpu_seconds = Some(workflow.total_cpu_time)
            /\ summary.throughput.data_rate_gbps = Some(workflow.overall_rate_gbps)
            /\ summary.events.total = Some(workflow.total_events)
            /\ summary.events.rate_wall_khz = Some(workflow.event_rate_wall_khz)

\* ---------------------------------------------------------------- C16
\* C16: when tracking_data is None, aggregate raises no error and returns
\* raw.workers = None, every field of summary.resources None, and
\* summary.efficiency.core_efficiency and summary.events.rate_core_khz None.
C16_MissingWorkersGiveNone ==
    (Applied("aggregate") /\ calc.args.tracking_data = None) =>
        LET out == calc.out[1]
        IN  /\ out.raised = ""
            /\ out.value.raw.workers = None
            /\ \A k \in DOMAIN out.value.summary.resources :
                  out.value.summary.resources[k] = None
            /\ out.value.summary.efficiency.core_efficiency = None
            /\ out.value.summary.events.rate_core_khz = None

\* ---------------------------------------------------------------- C17
\* C17: aggregate returns, leaves coffea_report, tracking_data,
\* span_metrics, chunk_metrics and section_metrics as they were, and hands
\* them back as raw.workers = tracking_data, raw.tasks = span_metrics,
\* raw.chunks = chunk_metrics and raw.sections = section_metrics.
C17_InputsReturnedAsRaw ==
    Applied("aggregate") =>
        LET out == calc.out[1]
        IN  /\ out.raised = ""
            /\ out.value.raw.workers = calc.args.tracking_data
            /\ out.value.raw.tasks = calc.args.span_metrics
            /\ out.value.raw.chunks = calc.args.chunk_metrics
            /\ out.value.raw.sections = calc.args.section_metrics

\* the indices of the items of a span metrics dict whose key is a tuple
\* naming the activity (and, when one is asked for, the unit), and their
\* values
WithActivity(items, activity) ==
    {i \in DOMAIN items : /\ items[i][1].tuple
                          /\ Len(items[i][1].parts) >= 3
                          /\ items[i][1].parts[3] = activity}
InBytes(items, activity) ==
    {i \in WithActivity(items, activity) :
        Len(items[i][1].parts) >= 4 /\ items[i][1].parts[4] = "bytes"}
ValuesOf(items) == [i \in DOMAIN items |-> items[i][2]]

\* ---------------------------------------------------------------- C18
\* C18: parse_fine_metrics returns for every span metrics dict; cpu and io
\* are the sums of the thread-cpu and thread-noncpu values over all task
\* prefixes; when cpu + io > 0, cpu_percentage = 100 * cpu / (cpu + io) and
\* io_percentage = 100 * io / (cpu + io), and the two add up to 100; when
\* cpu + io = 0 (empty input included) both percentages are 0.
C18_PercentagesOfCpuAndIo ==
    Applied("parse_fine_metrics") =>
        LET out == calc.out[1]
            items == calc.args.cumulative_worker_metrics
            cpu == Total(ValuesOf(items), WithActivity(items, "thread-cpu"))
            io == Total(ValuesOf(items), WithActivity(items, "thread-noncpu"))
        IN  /\ out.raised = ""
            /\ out.value.cpu_time_seconds = cpu
            /\ out.value.io_time_seconds = io
            /\ Add(cpu, io)[1] > 0 =>
                 /\ out.value.cpu_percentage = Div(Mul(Num(100), cpu), Add(cpu, io))
                 /\ out.value.io_percentage = Div(Mul(Num(100), io), Add(cpu, io))
                 /\ Add(out.value.cpu_percentage, out.value.io_percentage) = Num(100)
            /\ Add(cpu, io) = Zero =>
                 /\ out.value.cpu_percentage = Zero
                 /\ out.value.io_percentage = Zero

\* thread-cpu seconds under two task prefixes, 1 and 1/2: cpu is 3/2 and,
\* with no io, all of the time
C18_Witness ==
    /\ Applied("parse_fine_metrics")
    /\ Len(calc.args.cumulative_worker_metrics) = 2
    /\ calc.args.cumulative_worker_metrics[1] = <<TupleKey(<<"execute", "process", "thread-cpu", "seconds">>), Num(1)>>
    /\ calc.args.cumulative_worker_metrics[2] = <<TupleKey(<<"execute", "read", "thread-cpu", "seconds">>), Frac(1, 2)>>
    /\ calc.out[1].raised = ""
    /\ calc.out[1].value.cpu_time_seconds = Frac(3, 2)
    /\ calc.out[1].value.cpu_percentage = Num(100)

\* ---------------------------------------------------------------- C19
\* C19: calculate_compression_from_spans returns (None, None) whenever the
\* compressed byte count is 0 or the spans hold no positive uncompressed
\* byte total, and otherwise (U / compressed_bytes, U), where U is the sum
\* of the disk-read byte values if that sum is positive and the sum of the
\* memory-read byte values otherwise; the two results are both None or both
\* not None.  (Byte counts are not negative.)
C19_CompressionFromSpans ==
    Applied("calculate_compression_from_spans") =>
        LET out == calc.out[1]
            items == calc.args.cumulative_worker_metrics
            compressed == calc.args.compressed_bytes
            disk_read == Total(ValuesOf(items), InBytes(items, "disk-read"))
            memory_read == Total(ValuesOf(items), InBytes(items, "memory-read"))
            U == IF disk_read[1] > 0 THEN disk_read ELSE memory_read
        IN  /\ out.raised = ""
            /\ IF compressed = Zero \/ U[1] <= 0
               THEN out.value = <<None, None>>
               ELSE out.value = <<Some(Div(U, compressed)), Some(U)>>
            /\ (out.value[1] = None) <=> (out.value[2] = None)

\* no disk-read bytes but one memory-read byte, half a byte compressed
C19_Witness ==
    /\ Applied("calculate_compression_from_spans")
    /\ calc.args.compressed_bytes = Frac(1, 2)
    /\ Len(calc.args.cumulative_worker_metrics) = 2
    /\ calc.args.cumulative_worker_metrics[1] = <<TupleKey(<<"execute", "process", "disk-read", "bytes">>), Zero>>
    /\ calc.args.cumulative_worker_metrics[2] = <<TupleKey(<<"execute", "process", "memory-read", "bytes">>), Num(1)>>
    /\ calc.out[1].raised = ""
    /\ calc.out[1].value = <<Some(Num(2)), Some(Num(1))>>

\* a value json can write and read back as it is: None, numbers other than
\* NaN, strings, and lists and string-keyed dicts of such values
RECURSIVE JsonNative(_)
JsonNative(x) ==
    CASE Type(x) \in {"NoneType", "int", "str"} -> TRUE
      [] Type(x) = "float" -> x # NaN
      [] Type(x) = "list" -> \A i \in DOMAIN Content(x) : JsonNative(Content(x)[i])
      [] Type(x) = "dict" ->
            \A i \in DOMAIN Content(x) :
                Type(Content(x)[i][1]) = "str" /\ JsonNative(Content(x)[i][2])
      [] OTHER -> FALSE

\* load_measurement has returned (metrics, t0, t1) equal to what was saved
RoundTrip ==
    /\ calc.loaded[1].raised = ""
    /\ calc.loaded[1].value[1] = calc.args.metrics
    /\ NumbersEqual(calc.loaded[1].value[2], calc.args.t0)
    /\ NumbersEqual(calc.loaded[1].value[3], calc.args.t1)
Loaded == calc.fn = "save_measurement" /\ calc.loaded # None

RECURSIVE FirstLine(_)
FirstLine(tokens) ==
    IF tokens = <<>> \/ Head(tokens)[1] = "newline" THEN <<>>
    ELSE <<Head(tokens)>> \o FirstLine(Tail(tokens))
\* the first line of the file is two numbers with a comma between them
TwoNumbers(tokens) ==
    LET line == FirstLine(tokens)
    IN  /\ Len(line) = 3
        /\ line[1][1] = "number"
        /\ line[2][1] = "comma"
        /\ line[3][1] = "number"
\* load_measurement has been applied to the directory given to it
LoadedFrom(d) == Applied("load_measurement") /\ d = disk[calc.args.measurement_path]

\* ---------------------------------------------------------------- C21
\* C21 as stated: load_measurement raises FileNotFoundError when the
\* directory does not exist, else when metrics.json is missing, else when
\* start_end_time.txt is missing, and ValueError when all are there and the
\* first line of start_end_time.txt is not two comma-separated numbers.
C21_IncompleteIsAnError ==
    \A d \in Directories :
        LoadedFrom(d) =>
            LET r == calc.out[1]
            IN  /\ ~d.exists => r.raised = "FileNotFoundError"
                /\ d.exists /\ d.metrics = None => r.raised = "FileNotFoundError"
                /\ d.exists /\ d.metrics # None /\ d.timing = None => r.raised = "FileNotFoundError"
                /\ d.exists /\ d.metrics # None /\ d.timing # None /\ ~TwoNumbers(d.timing[1])
                       => IsInstance(r.raised, "ValueError")

\* C21 amended: the same, except that a missing start_end_time.txt gives
\* FileNotFoundError only when metrics.json holds a JSON document; each
\* FileNotFoundError names what was missing, in the order directory,
\* metrics.json, start_end_time.txt.
C21_IncompleteWithJsonIsAnError ==
    \A d \in Directories :
        LoadedFrom(d) =>
            LET r == calc.out[1]
            IN  /\ ~d.exists => r = NotFound("Measurement directory not found")
                /\ d.exists /\ d.metrics = None => r = NotFound("Metrics file not found")
                /\ d.exists /\ d.metrics # None /\ d.metrics[1] # Truncated /\ d.timing = None
                       => r = NotFound("Timing file not found")
                /\ d.exists /\ d.metrics # None /\ d.timing # None /\ ~TwoNumbers(d.timing[1])
                       => IsInstance(r.raised, "ValueError")

\* a directory with metrics.json and a start_end_time.txt whose first line
\* is "start,1" has been loaded, and ValueError was raised
C21_Witness ==
    \E d \in Directories :
        /\ LoadedFrom(d)
        /\ d.exists
        /\ d.metrics = Some(json_dump(PyDict(<<>>)))
        /\ d.timing = Some(<< <<"text", "start">>, <<"comma", ",">>, <<"number", PyInt(1)>>, <<"newline", "">> >>)
        /\ calc.out[1] = Invalid("Invalid timing format")

\* ---------------------------------------------------------------- C22
\* C22: when a call of save_measurement has returned, whatever calls came
\* before it, the directory it wrote has a config.json exactly when the
\* call was given a config, and config.json then holds that config.
C22_ConfigOfLastSave ==
    (/\ calc.fn = "save_measurement"
     /\ calc.out # None
     /\ calc.out[1].raised = "")
    => LET d == disk[calc.out[1].value]
       IN  /\ d.config # None <=> calc.args.config # None
           /\ calc.args.config # None => Decode(d.config[1]) = calc.args.config[1]

\* the sampling tasks that have not returned
Alive == {i \in DOMAIN scheduler.tasks : scheduler.tasks[i].pc = "waiting"}
\* the eight per-worker dicts, and all the samples taken
PerWorker ==
    {"worker_memory", "worker_memory_limit", "worker_active_tasks", "worker_cores",
     "worker_nbytes", "worker_occupancy", "worker_executing", "worker_last_seen"}
Samples == <<scheduler.worker_counts, [n \in PerWorker |-> scheduler[n]]>>

\* ---------------------------------------------------------------- C23
\* C23: whatever start_tracking and stop_tracking calls were made, at most
\* one sampling loop is alive while the flag tells the loops to sample.
C23_OneSamplingLoop ==
    scheduler.track_count => Cardinality(Alive) <= 1

\* ---------------------------------------------------------------- C24
\* C24: while the flag is cleared by stop_tracking and not set again by a
\* start_tracking, no step appends a sample, a loop that takes a turn
\* returns, and every loop has eventually returned.
C24_StoppedLoopsEnd ==
    /\ [][~scheduler.track_count =>
            \/ scheduler'.track_count
            \/ /\ Samples' = Samples
               /\ \A i \in Alive :
                    scheduler'.tasks[i] # scheduler.tasks[i] => scheduler'.tasks[i].pc = "done"]_vars
    /\ (~scheduler.track_count) ~> (scheduler.track_count \/ Alive = {})

\* tracking was started, a sample was taken, stop_tracking returned the
\* data and the loop has since returned
C24_Witness ==
    /\ ~scheduler.track_count
    /\ scheduler.raised = ""
    /\ "worker_counts" \in scheduler.attributes
    /\ DOMAIN scheduler.worker_counts # {}
    /\ scheduler.tasks # <<>>
    /\ Alive = {}

\* ---------------------------------------------------------------- C25
\* C25: in every state the eight per-worker dicts have the same worker ids,
\* the eight lists of a worker id have the same length and the same
\* timestamp at each position, and each of these timestamps is a key of
\* worker_counts.
C25_SeriesAligned ==
    \A n \in PerWorker, m \in PerWorker :
        /\ DOMAIN scheduler[n] = DOMAIN scheduler[m]
        /\ \A w \in DOMAIN scheduler[n] :
             /\ Len(scheduler[n][w]) = Len(scheduler[m][w])
             /\ \A k \in 1..Len(scheduler[n][w]) :
                  /\ scheduler[n][w][k][1] = scheduler[m][w][k][1]
                  /\ scheduler[n][w][k][1] \in DOMAIN scheduler.worker_counts

\* two samples were taken, the first of no worker, the second of the worker
\* that joined between them
C25_Witness ==
    /\ DOMAIN scheduler.worker_counts = {0, 1}
    /\ scheduler.worker_counts[0] = 0
    /\ scheduler.worker_counts[1] = 1
    /\ \E w \in WorkerIds :
         /\ w \in DOMAIN scheduler.worker_last_seen
         /\ scheduler.worker_last_seen[w] = << <<1, WorkerState(w).last_seen>> >>
         /\ Len(scheduler.worker_memory[w]) = 1

\* the positions of a call in the log of span calls
Calls(op, id) == {k \in DOMAIN backend.span_log : backend.span_log[k] = <<op, id>>}
\* the step is an __enter__, an __exit__
EnterStep == hist'.enters = hist.enters + 1
ExitStep == hist'.exits = hist.exits + 1

\* ---------------------------------------------------------------- C26
\* C26: a span entered in __enter__ is exited once, by the __exit__ of the
\* same with-block, and its metrics are requested only after that exit.
\* When the span could not be created or entered, __enter__ returns with
\* span_info None, and the __exit__ of that block makes no span call, yet
\* stops the tracking and calls the aggregation (which assigns
\* collector.metrics unless aggregate itself raises).
C26_SpanExitedOnce ==
    /\ [](\A id \in 1..backend.span_enters :
            /\ Cardinality(Calls("enter", id)) = 1
            /\ Cardinality(Calls("exit", id)) <= 1
            /\ \A x \in Calls("exit", id) : \E e \in Calls("enter", id) : e < x
            /\ \A g \in Calls("get_span_metrics", id) : \E x \in Calls("exit", id) : x < g
            /\ Calls("exit", id) = {}
                 <=> (ctx = "in" /\ collector.span_info # None /\ collector.span_info[1].id = id))
    /\ [][/\ (EnterStep /\ backend'.span_log = backend.span_log)
                => /\ collector'.span_info = None
                   /\ last'.outcome = "returned"
                   /\ ctx' = "in"
          /\ (ExitStep /\ collector.span_info = None)
                => /\ backend'.span_log = backend.span_log
                   /\ collector.track_workers
                        => /\ backend'.stops = backend.stops + 1
                           /\ ~backend'.tracking
                           /\ collector'.tracking_data = tracking_result(backend)
                   /\ collector.coffea_report # None
                        => \/ /\ hist'.aggregations = hist.aggregations + 1
                              /\ collector'.metrics # None
                              /\ collector'.metrics[1].t_end = collector'.t_end[1]
                           \/ hist'.exit_raised]_vars

\* two with-blocks have ended: the span of the first was entered, exited and
\* asked for its metrics, the span of the second could not be entered, and
\* the second __exit__ stopped the tracking and aggregated
C26_Witness ==
    /\ hist.exits = 2
    /\ last.op = "exit"
    /\ last.outcome = "returned"
    /\ backend.span_log = << <<"enter", 1>>, <<"exit", 1>>, <<"get_span_metrics", 1>> >>
    /\ collector.span_info = None
    /\ backend.stops = 2
    /\ collector.metrics # None
    /\ collector.metrics[1].t_end = collector.t_end[1]

C28_SecondBlockOnly ==
    (/\ hist.exits = 2
     /\ last.op = "exit"
     /\ collector.coffea_report # None
     /\ ~hist.exit_raised)
    => /\ collector.metrics =
            Some(aggregate(collector.coffea_report[1], collector.tracking_data,
                           collector.t_start[1], collector.t_end[1],
                           collector.custom_metrics, collector.span_metrics,
                           collector.processor_name, None))
       /\ hist.report_run # 1
       /\ collector.span_metrics # None => hist.span_run = 2
       /\ collector.tracking_data # None => hist.tracking_run = 2

\* ---------------------------------------------------------------- C30
\* C30: the disk_read_bytes parse_fine_metrics returns is the sum of the
\* values whose key names the activity disk-read and the unit bytes, which
\* is the disk-read total calculate_compression_from_spans computes from
\* the same dict.
C30_DiskReadCountsBytes ==
    Applied("parse_fine_metrics") =>
        LET items == calc.args.cumulative_worker_metrics
        IN  /\ calc.out[1].raised = ""
            /\ calc.out[1].value.disk_read_bytes = Total(ValuesOf(items), InBytes(items, "disk-read"))
            /\ calc.out[1].value.disk_read_bytes = SumBytes(items, "disk-read")

\* C29: when two wrapped calls on one processor instance interleave, no call
\* ends in the AttributeError of a missing _roastcoffea_current_chunk (the
\* bodies raise nothing but ValueError), and the chunk record a call returns
\* holds exactly the timing and memory sections that call's own blocks
\* recorded
C29_CallsDoNotInterfere ==
    \A th \in DOMAIN call :
        LET c == call[th] IN
        /\ c.exc # "AttributeError"
        /\ c.out # None =>
              /\ c.out[1].exc # "AttributeError"
              /\ (c.out[1].kind = "return" /\ c.out[1].collect) =>
                    LET chunk == c.out[1].value[1].metrics[1][1] IN
                    /\ chunk.timing = c.own.timing
                    /\ chunk.memory = c.own.memory

====
